---- MODULE Spec2Model ----
(***************************************************************************)
(* Vote-tally and status-reconciliation engine of DILL-bot.                *)
(*                                                                         *)
(* Spec      : the status-tag life cycle of one forum thread under every   *)
(*             handler that edits status tags (features/spreadsheets/      *)
(*             cog.py, sync.py, bot.py).                                   *)
(* SpecSheet : the diff-based sheet reconciliation of                      *)
(*             cogs/google_sheets.py (update_forum_data and                *)
(*             _update_spreadsheet) against a forum whose threads come,    *)
(*             change and go.                                              *)
(* SpecOverlap : the periodic pass and a setup_forum_tracker pass side by  *)
(*             side.                                                       *)
(* SpecVotes : the four vote counters over the reactions of one opening    *)
(*             message.                                                    *)
(* SpecServers : the scan cycles of check_votes, check_ratios and          *)
(*             update_tracker over the enabled servers and their threads.  *)
(* SpecSync  : the sync cycles of spreadsheets.py (sync command and        *)
(*             combined_sync_task), the ratio map, the approval            *)
(*             notifications and the row layout of each sheet writer.      *)
(* SpecRewrite : the writers that clear the data range and write every     *)
(*             row again (update_sheet, batch_update_values).              *)
(* SpecBatches : the batch loop of the three full syncs.                   *)
(* SpecVoteCheck : the thread under the periodic vote check alone, with    *)
(*             fairness of the clock and of the check.                     *)
(***************************************************************************)
EXTENDS Integers, Sequences, FiniteSets, TLC

VARIABLES
    now,            \* wall clock, in hours
    exists,         \* the thread has been created
    created_at,     \* thread.created_at, in hours
    applied_tags,   \* thread.applied_tags
    votes,          \* <<yes, no>> reactions made by users on the opening message
    seeded,         \* the bot's own yes and no reactions are on the opening message
    available_tags, \* channel.available_tags
    appended,       \* rows add_to_spreadsheet has appended for the thread
    last,           \* the handler that ran last on the thread and how it ended
    threads,        \* forum threads seen by update_forum_data: id -> record
    sheet,          \* rows of range B2:G, top to bottom
    pass,           \* position of the running update_forum_data pass
    updates,        \* the pass's to_delete / to_update / to_add
    calls,          \* store calls issued by the running (or last) pass
    snap,           \* what the pass saw when it started
    setup,          \* the update_forum_data pass of a setup_forum_tracker command
    user_reactions, \* emoji -> reactions made by users on an opening message
    bot_on,         \* emoji on which the bot's own reaction sits
    record,         \* the counts the last vote counter produced
    exempt_threads, \* config.exempt_threads: the keys exempt_thread has added
    servers,        \* the enabled servers of a scan cycle: index -> state of its configuration
    due,            \* <<server, thread>> whose status tag a scan would change
    scan,           \* the running (or last) scan cycle and where it stands
    served,         \* servers whose thread loops the cycle has completed
    evaluated,      \* threads the cycle has run its per-thread handler on
    edit_calls,     \* thread.edit calls of the cycle, per thread
    failed_edits,   \* threads whose thread.edit failed in the cycle
    ratio_now,      \* thread -> the approval percentage its reactions give now
    last_thread_states, \* SpreadsheetService.last_thread_states, as <<thread, ratio>> pairs
    run,            \* the sync_all_threads call of each caller
    loop,           \* the per-thread loop of combined_sync_task
    notes,          \* thread -> approval notifications since its ratio last rose above 50%
    cycles_started, \* sync_all_threads calls so far (counted up to 2)
    last_write,     \* how the last sheet writer or sync cycle ended
    fanout          \* the batch loop of the running full sync and its tasks in flight

tagVars == <<now, exists, created_at, applied_tags, votes, seeded,
             available_tags, appended, last>>
sheetVars == <<threads, sheet, pass, updates, calls, snap, setup>>
messageVars == <<user_reactions, bot_on, record>>
scanVars == <<servers, due, scan, served, evaluated, edit_calls, failed_edits>>
syncVars == <<ratio_now, last_thread_states, run, loop, notes, cycles_started,
              last_write>>
batchVars == <<fanout>>
cycleVars == <<exempt_threads, scanVars, syncVars, batchVars>>
vars == <<tagVars, sheetVars, messageVars, cycleVars>>

\* what the handlers of one part of the bot leave alone
notTagVars == <<sheetVars, messageVars, cycleVars>>
notSheetVars == <<tagVars, messageVars, cycleVars>>
notMessageVars == <<tagVars, sheetVars, cycleVars>>

----------------------------------------------------------------------------
(* Tags and thresholds                                                     *)

INITIAL_VOTE == "INITIAL_VOTE"
ADDED_TO_LIST == "ADDED_TO_LIST"
NOT_IN_LIST == "NOT_IN_LIST"
OTHER_TAG == "OTHER_TAG"

StatusTags == {INITIAL_VOTE, ADDED_TO_LIST, NOT_IN_LIST}
FinalTags == {ADDED_TO_LIST, NOT_IN_LIST}
AllTags == StatusTags \cup {OTHER_TAG}

\* timedelta(hours=24), thread_age <= 24, thread_age < 24
MinAgeHours == 24
\* yes_ratio > 0.5001, as yes * 10000 > 5001 * total
ApproveRatioE4 == 5001
\* ratio < 0.34, as yes * 100 < 34 * total
DemoteRatioPct == 34
\* vote_percentage >= 50.1, as yes * 1000 >= 501 * total
VotePctTenths == 501
\* vote_percentage >= 50 in fix_threads, as yes * 100 >= 50 * total
FixPct == 50

\* Instants at which the model looks at the clock.
TimePoints == {0, 23, 24, 25}
\* User votes <<yes, no>> present at an instant.
VotePairs == {<<0, 0>>, <<1, 1>>, <<1, 2>>, <<2, 3>>, <<2, 1>>, <<251, 250>>}
\* channel.available_tags: complete, or with one status tag deleted.
AvailableChoices == {AllTags, AllTags \ {NOT_IN_LIST}, AllTags \ {ADDED_TO_LIST}}
\* Rows add_to_spreadsheet may append before the model stops counting.
MaxAppends == 2

ThreadAge == now - created_at

\* reaction.count of the yes / no emoji: user reactions plus the bot's own.
ReactionCount(n) == n + (IF seeded THEN 1 ELSE 0)

\* yes_votes += reaction.count - 1, for a reaction that is on the message.
CountOne(count) == IF count > 0 THEN count - 1 ELSE 0

\* count_votes: <<yes_votes, no_votes>>
count_votes == <<CountOne(ReactionCount(votes[1])), CountOne(ReactionCount(votes[2]))>>

yes_votes == count_votes[1]
no_votes == count_votes[2]
total_votes == yes_votes + no_votes

----------------------------------------------------------------------------
(* Status decisions, one per call site                                     *)

IsApproved_GE50(yes, total) == yes * 2 >= total

\* process_thread_votes, process_untagged, check_thread_ratio: ratio > 0.5001
IsApproved(yes, total) == yes * 10000 > ApproveRatioE4 * total

\* check_thread_ratio: ratio < 0.34
BelowDemote(yes, total) == yes * 100 < DemoteRatioPct * total

\* vote_percentage >= 50.1, where vote_percentage is 0 when there are no votes
PctAtLeast501(yes, total) == total > 0 /\ yes * 1000 >= VotePctTenths * total

\* vote_percentage >= 50 in fix_threads
PctAtLeast50(yes, total) == total > 0 /\ yes * 100 >= FixPct * total
\* a tag list rebuilt from the new status tag alone
CogNewTags_StatusOnly(tags, is_approved) ==
    {IF is_approved THEN ADDED_TO_LIST ELSE NOT_IN_LIST}

\* SpreadsheetCog.update_thread_tags: the tags the edit call is given
CogNewTags(tags, is_approved) ==
    (tags \ StatusTags) \cup {IF is_approved THEN ADDED_TO_LIST ELSE NOT_IN_LIST}

\* an update_thread_tags that strips the old status tags before it looks
\* for the new one
update_thread_tags_StripsFirst(tags, avail, is_approved, ok_edit) ==
    LET new_tag == IF is_approved THEN ADDED_TO_LIST ELSE NOT_IN_LIST
    IN  IF new_tag \notin avail
        THEN [tags |-> tags \ StatusTags, result |-> "tag_missing"]
        ELSE IF ok_edit
             THEN [tags |-> CogNewTags(tags, is_approved), result |-> "edited"]
             ELSE [tags |-> tags, result |-> "edit_failed"]

\* SpreadsheetCog.update_thread_tags: [tags, result]
update_thread_tags(tags, avail, is_approved, ok_edit) ==
    LET new_tag == IF is_approved THEN ADDED_TO_LIST ELSE NOT_IN_LIST
    IN  IF new_tag \notin avail
        THEN [tags |-> tags, result |-> "tag_missing"]
        ELSE IF ok_edit
             THEN [tags |-> CogNewTags(tags, is_approved), result |-> "edited"]
             ELSE [tags |-> tags, result |-> "edit_failed"]

----------------------------------------------------------------------------
(* Per-thread handlers: each yields the thread's tags after the handler    *)
(* and how the handler ended.                                              *)

Kept(tags, r) == [tags |-> tags, result |-> r]

\* SpreadsheetCog.process_thread_votes: [tags, result, add_row]
process_thread_votes(age, tags, yes, no, avail, ok_fetch, ok_edit) ==
    IF age < MinAgeHours
    THEN [tags |-> tags, result |-> "not_due", add_row |-> FALSE]
    ELSE IF tags \cap FinalTags # {}
    THEN [tags |-> tags, result |-> "has_final", add_row |-> FALSE]
    ELSE IF INITIAL_VOTE \notin tags
    THEN [tags |-> tags, result |-> "no_initial", add_row |-> FALSE]
    ELSE IF ~ok_fetch
    THEN [tags |-> tags, result |-> "fetch_failed", add_row |-> FALSE]
    ELSE IF yes + no = 0
    THEN [tags |-> tags, result |-> "no_votes", add_row |-> FALSE]
    ELSE LET is_approved == IsApproved(yes, yes + no)
             u == update_thread_tags(tags, avail, is_approved, ok_edit)
         IN  [tags |-> u.tags, result |-> u.result, add_row |-> is_approved]

\* SpreadsheetCog.process_untagged, for one thread: [tags, result, add_row]
process_untagged(age, tags, yes, no, avail, ok_fetch, ok_edit) ==
    IF ~(age >= MinAgeHours /\ INITIAL_VOTE \in tags /\ tags \cap FinalTags = {})
    THEN [tags |-> tags, result |-> "not_eligible", add_row |-> FALSE]
    ELSE IF ~ok_fetch
    THEN [tags |-> tags, result |-> "fetch_failed", add_row |-> FALSE]
    ELSE IF yes + no > 0
    THEN LET is_approved == IsApproved(yes, yes + no)
             u == update_thread_tags(tags, avail, is_approved, ok_edit)
         IN  [tags |-> u.tags, result |-> u.result,
              add_row |-> is_approved]
    ELSE [tags |-> tags, result |-> "no_votes", add_row |-> FALSE]

\* SpreadsheetCog.check_thread_ratio: [tags, result]
check_thread_ratio(tags, yes, no, avail, ok_fetch, ok_edit) ==
    IF ~ok_fetch
    THEN Kept(tags, "fetch_failed")
    ELSE IF yes + no = 0
    THEN Kept(tags, "no_votes")
    ELSE IF ADDED_TO_LIST \in tags /\ BelowDemote(yes, yes + no)
    THEN update_thread_tags(tags, avail, FALSE, ok_edit)
    ELSE IF NOT_IN_LIST \in tags /\ IsApproved(yes, yes + no)
    THEN update_thread_tags(tags, avail, TRUE, ok_edit)
    ELSE Kept(tags, "unchanged")

\* the delta of a manage_thread_tags that leaves the other final tag alone
SyncCog_tag_delta_KeepsOtherFinal(tags, yes, no, thread_age) ==
    IF thread_age <= MinAgeHours
    THEN [add |-> {INITIAL_VOTE} \ tags, remove |-> tags \cap FinalTags]
    ELSE IF PctAtLeast501(yes, yes + no)
    THEN [add |-> {ADDED_TO_LIST} \ tags, remove |-> tags \cap {INITIAL_VOTE}]
    ELSE [add |-> {NOT_IN_LIST} \ tags, remove |-> tags \cap {INITIAL_VOTE}]

\* SyncCog.manage_thread_tags: tags_to_add and tags_to_remove
SyncCog_tag_delta(tags, yes, no, thread_age) ==
    IF thread_age <= MinAgeHours
    THEN [add |-> {INITIAL_VOTE} \ tags, remove |-> tags \cap FinalTags]
    ELSE IF PctAtLeast501(yes, yes + no)
    THEN [add |-> {ADDED_TO_LIST} \ tags,
          remove |-> tags \cap {INITIAL_VOTE, NOT_IN_LIST}]
    ELSE [add |-> {NOT_IN_LIST} \ tags,
          remove |-> tags \cap {INITIAL_VOTE, ADDED_TO_LIST}]

\* SyncCog.update_thread_tags: [tags, result]
SyncCog_update_thread_tags(tags, avail, tags_to_add, tags_to_remove, ok_edit) ==
    LET tags_to_add_set == tags_to_add \ tags
        tags_to_remove_set == tags_to_remove \cap tags
        new_tags == (tags \ tags_to_remove_set) \cup tags_to_add_set
        new_tag_objects == new_tags \cap avail
    IN  IF new_tag_objects # tags
        THEN IF ok_edit
             THEN Kept(new_tag_objects, "edited")
             ELSE Kept(tags, "edit_failed")
        ELSE Kept(tags, "unchanged")

\* SyncCog.manage_thread_tags: [tags, result]
SyncCog_manage_thread_tags(tags, avail, yes, no, thread_age, ok_edit) ==
    IF ~(StatusTags \subseteq avail)
    THEN Kept(tags, "tag_missing")
    ELSE LET d == SyncCog_tag_delta(tags, yes, no, thread_age)
         IN  SyncCog_update_thread_tags(tags, avail, d.add, d.remove, ok_edit)

\* DiscordBot.manage_thread_tags: the status tag appended
DiscordBot_status_tag(yes, no, thread_age) ==
    IF thread_age < MinAgeHours
    THEN INITIAL_VOTE
    ELSE IF PctAtLeast501(yes, yes + no) THEN ADDED_TO_LIST ELSE NOT_IN_LIST

\* DiscordBot.manage_thread_tags: [tags, result]
DiscordBot_manage_thread_tags(tags, avail, yes, no, thread_age, ok_edit) ==
    LET tag == DiscordBot_status_tag(yes, no, thread_age)
    IN  IF tag \notin avail
        THEN Kept(tags, "tag_missing")
        ELSE IF ok_edit
             THEN Kept((tags \ StatusTags) \cup {tag}, "edited")
             ELSE Kept(tags, "edit_failed")

fix_threads_status_tag_NoAgeGate(yes, no, thread_age) ==
    IF PctAtLeast50(yes, yes + no) THEN ADDED_TO_LIST ELSE NOT_IN_LIST

\* DiscordBot.fix_threads: the status tag appended
fix_threads_status_tag(yes, no, thread_age) ==
    IF thread_age <= MinAgeHours
    THEN INITIAL_VOTE
    ELSE IF PctAtLeast50(yes, yes + no) THEN ADDED_TO_LIST ELSE NOT_IN_LIST

\* DiscordBot.fix_threads, for one thread: [tags, result]
fix_threads(tags, avail, yes, no, thread_age, ok_fetch, ok_edit) ==
    IF ~(StatusTags \subseteq avail)
    THEN Kept(tags, "tag_missing")
    ELSE IF ~ok_fetch
    THEN Kept(tags, "fetch_failed")
    ELSE IF ok_edit
    THEN Kept((tags \ StatusTags) \cup {fix_threads_status_tag(yes, no, thread_age)},
              "edited")
    ELSE Kept(tags, "edit_failed")


----------------------------------------------------------------------------
(* Spec: the status-tag life cycle of one thread                           *)

\* No update_forum_data pass has run since the forum last changed.
NoPass == [pc |-> "idle", result |-> "none"]
NoUpdates == [to_delete |-> <<>>, to_update |-> <<>>, to_add |-> <<>>]
NoSnap == [values |-> <<>>, current_threads |-> {}, rows |-> <<>>, failed |-> {}]
\* No setup_forum_tracker command is running.
NoSetup == [pc |-> "idle", updates |-> NoUpdates]

\* The thread has not been posted yet.
InitThread ==
    /\ now = 0
    /\ exists = FALSE
    /\ created_at = 0
    /\ applied_tags = {}
    /\ votes = <<0, 0>>
    /\ seeded = FALSE
    /\ appended = 0
    /\ last = [op |-> "init", result |-> "none"]

\* The tracked forum channel is empty and no pass has run.
InitForum ==
    /\ threads = <<>>
    /\ pass = NoPass
    /\ updates = NoUpdates
    /\ calls = <<>>
    /\ snap = NoSnap
    /\ setup = NoSetup

\* pickle_yes, the check mark, abobaheavenlymerveilleuxinstantw, pickle_no
\* and the cross mark.
Emoji == {"pickle_yes", "check", "aboba", "pickle_no", "cross"}

NoRecord == [op |-> "none", yes_votes |-> 0, no_votes |-> 0]

\* The servers and the threads of each server a scan cycle goes through.
ServerIds == {1, 2}
ScanThreads == {1, 2}
ThreadKeys == ServerIds \X ScanThreads
\* A server's configuration: complete, its forum channel gone, or no
\* notification channel set.
ConfigKinds == {"ok", "no_channel", "no_notification"}

NoScan == [op |-> "idle", server |-> 1, thread |-> 0, result |-> "none"]

\* No scan cycle has run.
InitScan ==
    /\ servers = [i \in ServerIds |-> "ok"]
    /\ due = {}
    /\ scan = NoScan
    /\ served = {}
    /\ evaluated = {}
    /\ edit_calls = [k \in ThreadKeys |-> 0]
    /\ failed_edits = {}

\* The threads of the forum a sync cycle goes through, the callers of
\* sync_all_threads (the sync command and combined_sync_task) and the
\* approval percentages a thread moves between.
SyncThreads == {1, 2}
Runners == {"command", "task"}
Ratios == {50, 60}
\* Notifications counted per thread.
MaxNotes == 2
\* prev_ratio <= 50 and ratio > 50
NotifyPct == 50

NoRun == [pc |-> "idle", first |-> FALSE, ordinal |-> 0,
          task |-> [t \in SyncThreads |-> "todo"],
          ratio |-> [t \in SyncThreads |-> 0]]
NoLoop == [pos |-> 0, waiting |-> FALSE, syncs |-> 0]
NoWrite == [op |-> "none", writer |-> "none", threads |-> {}, failed |-> {},
            layout |-> <<>>]

\* No sync cycle has run: the ratio map is empty.
InitSync ==
    /\ ratio_now = [t \in SyncThreads |-> 50]
    /\ last_thread_states = {}
    /\ run = [r \in Runners |-> NoRun]
    /\ loop = NoLoop
    /\ notes = [t \in SyncThreads |-> 0]
    /\ cycles_started = 0
    /\ last_write = NoWrite

\* No thread exempted, no scan or sync cycle run.
\* No full sync is inside its batch loop.
NoFanout == [op |-> "none", total |-> 0, i |-> 0, in_flight |-> 0]

InitCycle ==
    /\ exempt_threads = {}
    /\ InitScan
    /\ InitSync
    /\ fanout = NoFanout

\* An opening message nobody has reacted to.
InitMessage ==
    /\ user_reactions = [e \in Emoji |-> 0]
    /\ bot_on = {}
    /\ record = NoRecord

Init ==
    /\ InitThread
    /\ InitMessage
    /\ InitCycle
    /\ available_tags \in AvailableChoices
    /\ InitForum
    /\ sheet = <<>>

\* Time passes.
Tick(t) ==
    /\ t > now
    /\ now' = t
    /\ last' = [op |-> "tick", result |-> "none"]
    /\ UNCHANGED <<exists, created_at, applied_tags, votes, seeded,
                   available_tags, appended, notTagVars>>

\* Users react to, or withdraw reactions from, the opening message.
Vote(v) ==
    /\ exists
    /\ v # votes
    /\ votes' = v
    /\ last' = [op |-> "vote", result |-> "none"]
    /\ UNCHANGED <<now, exists, created_at, applied_tags, seeded,
                   available_tags, appended, notTagVars>>

\* A thread is posted while no on_thread_create listener runs for it.
CreateThread(other) ==
    /\ ~exists
    /\ exists' = TRUE
    /\ created_at' = now
    /\ applied_tags' = other
    /\ last' = [op |-> "create", result |-> "none"]
    /\ UNCHANGED <<now, votes, seeded, available_tags, appended, notTagVars>>

\* SpreadsheetCog.on_thread_create, on a thread just posted
SpreadsheetCog_on_thread_create(other, ok_fetch, ok_edit) ==
    /\ ~exists
    /\ exists' = TRUE
    /\ created_at' = now
    /\ seeded' = ok_fetch
    /\ applied_tags' = IF ok_fetch /\ INITIAL_VOTE \in available_tags /\ ok_edit
                       THEN {INITIAL_VOTE}
                       ELSE other
    /\ last' = [op |-> "on_thread_create",
                result |-> IF ~ok_fetch THEN "fetch_failed"
                           ELSE IF INITIAL_VOTE \notin available_tags THEN "tag_missing"
                           ELSE IF ok_edit THEN "edited" ELSE "edit_failed"]
    /\ UNCHANGED <<now, votes, available_tags, appended, notTagVars>>

\* DiscordBot.on_thread_create, on a thread just posted
DiscordBot_on_thread_create(other, ok_edit, ok_fetch) ==
    /\ ~exists
    /\ exists' = TRUE
    /\ created_at' = now
    /\ applied_tags' = IF INITIAL_VOTE \in available_tags /\ ok_edit
                       THEN other \cup {INITIAL_VOTE}
                       ELSE other
    /\ seeded' = ((INITIAL_VOTE \in available_tags => ok_edit) /\ ok_fetch)
    /\ last' = [op |-> "on_thread_create",
                result |-> IF INITIAL_VOTE \notin available_tags THEN "tag_missing"
                           ELSE IF ok_edit THEN "edited" ELSE "edit_failed"]
    /\ UNCHANGED <<now, votes, available_tags, appended, notTagVars>>

\* check_votes and process_backlog: process_thread_votes on the thread
check_votes(ok_fetch, ok_edit, ok_append) ==
    /\ exists
    /\ LET r == process_thread_votes(ThreadAge, applied_tags, yes_votes, no_votes,
                                     available_tags, ok_fetch, ok_edit)
       IN  /\ (r.add_row /\ ok_append) => appended < MaxAppends
           /\ applied_tags' = r.tags
           /\ appended' = IF r.add_row /\ ok_append THEN appended + 1 ELSE appended
           /\ last' = [op |-> "process_thread_votes", result |-> r.result]
    /\ UNCHANGED <<now, exists, created_at, votes, seeded, available_tags, notTagVars>>

\* the process_untagged command, on the thread
process_untagged_command(ok_fetch, ok_edit, ok_append) ==
    /\ exists
    /\ LET r == process_untagged(ThreadAge, applied_tags, yes_votes, no_votes,
                                 available_tags, ok_fetch, ok_edit)
       IN  /\ (r.add_row /\ ok_append) => appended < MaxAppends
           /\ applied_tags' = r.tags
           /\ appended' = IF r.add_row /\ ok_append THEN appended + 1 ELSE appended
           /\ last' = [op |-> "process_untagged", result |-> r.result]
    /\ UNCHANGED <<now, exists, created_at, votes, seeded, available_tags, notTagVars>>

\* check_ratios: check_thread_ratio on the thread
check_ratios(ok_fetch, ok_edit) ==
    /\ exists
    /\ LET r == check_thread_ratio(applied_tags, yes_votes, no_votes,
                                   available_tags, ok_fetch, ok_edit)
       IN  /\ applied_tags' = r.tags
           /\ last' = [op |-> "check_thread_ratio", result |-> r.result]
    /\ UNCHANGED <<now, exists, created_at, votes, seeded, available_tags,
                   appended, notTagVars>>

\* SyncCog.manage_tags_task on the thread: a failed fetch counts no reaction
manage_tags_task(ok_fetch, ok_edit) ==
    /\ exists
    /\ LET yes_count == IF ok_fetch THEN yes_votes ELSE 0
           no_count == IF ok_fetch THEN no_votes ELSE 0
           r == SyncCog_manage_thread_tags(applied_tags, available_tags, yes_count,
                                           no_count, ThreadAge, ok_edit)
       IN  /\ applied_tags' = r.tags
           /\ last' = [op |-> "SyncCog_manage_thread_tags", result |-> r.result]
    /\ UNCHANGED <<now, exists, created_at, votes, seeded, available_tags,
                   appended, notTagVars>>

\* DiscordBot.combined_sync_task on the thread
combined_sync_task(ok_fetch, ok_edit) ==
    /\ exists
    /\ LET r == IF ok_fetch
                THEN DiscordBot_manage_thread_tags(applied_tags, available_tags,
                         yes_votes, no_votes, ThreadAge, ok_edit)
                ELSE Kept(applied_tags, "fetch_failed")
       IN  /\ applied_tags' = r.tags
           /\ last' = [op |-> "DiscordBot_manage_thread_tags", result |-> r.result]
    /\ UNCHANGED <<now, exists, created_at, votes, seeded, available_tags,
                   appended, notTagVars>>

\* the fix_threads command, on the thread: it re-adds the bot's reactions
fix_threads_command(ok_fetch, ok_edit) ==
    /\ exists
    /\ LET r == fix_threads(applied_tags, available_tags, yes_votes, no_votes,
                            ThreadAge, ok_fetch, ok_edit)
       IN  /\ applied_tags' = r.tags
           /\ seeded' = IF r.result = "edited" THEN TRUE ELSE seeded
           /\ last' = [op |-> "fix_threads", result |-> r.result]
    /\ UNCHANGED <<now, exists, created_at, votes, available_tags, appended, notTagVars>>

\* The key of the thread the tag handlers run on.
THREAD_ID == "thread"
\* The keys the exemption commands are given.
ThreadIds == {THREAD_ID, "other"}

\* DiscordBot.exempt_thread
exempt_thread(thread_id) ==
    /\ exempt_threads' = exempt_threads \cup {thread_id}
    /\ last' = [op |-> "exempt_thread", result |-> "none"]
    /\ UNCHANGED <<now, exists, created_at, applied_tags, votes, seeded,
                   available_tags, appended, sheetVars, messageVars, batchVars, scanVars,
                   syncVars>>

\* DiscordBot.unexempt_thread
unexempt_thread(thread_id) ==
    /\ exempt_threads' = exempt_threads \ {thread_id}
    /\ last' = [op |-> "unexempt_thread", result |-> "none"]
    /\ UNCHANGED <<now, exists, created_at, applied_tags, votes, seeded,
                   available_tags, appended, sheetVars, messageVars, batchVars, scanVars,
                   syncVars>>

Next ==
    \/ \E t \in TimePoints : Tick(t)
    \/ \E v \in VotePairs : Vote(v)
    \/ \E other \in SUBSET {OTHER_TAG} : CreateThread(other)
    \/ \E other \in SUBSET {OTHER_TAG}, ok_fetch \in BOOLEAN, ok_edit \in BOOLEAN :
          SpreadsheetCog_on_thread_create(other, ok_fetch, ok_edit)
    \/ \E other \in SUBSET {OTHER_TAG}, ok_fetch \in BOOLEAN, ok_edit \in BOOLEAN :
          DiscordBot_on_thread_create(other, ok_edit, ok_fetch)
    \/ \E ok_fetch \in BOOLEAN, ok_edit \in BOOLEAN, ok_append \in BOOLEAN :
          check_votes(ok_fetch, ok_edit, ok_append)
    \/ \E ok_fetch \in BOOLEAN, ok_edit \in BOOLEAN, ok_append \in BOOLEAN :
          process_untagged_command(ok_fetch, ok_edit, ok_append)
    \/ \E ok_fetch \in BOOLEAN, ok_edit \in BOOLEAN : check_ratios(ok_fetch, ok_edit)
    \/ \E ok_fetch \in BOOLEAN, ok_edit \in BOOLEAN : manage_tags_task(ok_fetch, ok_edit)
    \/ \E ok_fetch \in BOOLEAN, ok_edit \in BOOLEAN : combined_sync_task(ok_fetch, ok_edit)
    \/ \E ok_fetch \in BOOLEAN, ok_edit \in BOOLEAN : fix_threads_command(ok_fetch, ok_edit)
    \/ \E thread_id \in ThreadIds : exempt_thread(thread_id)
    \/ \E thread_id \in ThreadIds : unexempt_thread(thread_id)

Spec == Init /\ [][Next]_vars

\* The thread's life under the vote check alone: time passes, and the
\* check_votes loop (tasks.loop(minutes=10)) keeps coming round to the thread
\* with provider calls that succeed.
NextVoteCheck ==
    \/ \E t \in TimePoints : Tick(t)
    \/ \E v \in VotePairs : Vote(v)
    \/ \E other \in SUBSET {OTHER_TAG} : CreateThread(other)
    \/ \E other \in SUBSET {OTHER_TAG}, ok_fetch \in BOOLEAN, ok_edit \in BOOLEAN :
          SpreadsheetCog_on_thread_create(other, ok_fetch, ok_edit)
    \/ \E ok_fetch \in BOOLEAN, ok_edit \in BOOLEAN, ok_append \in BOOLEAN :
          check_votes(ok_fetch, ok_edit, ok_append)

SpecVoteCheck ==
    /\ Init
    /\ [][NextVoteCheck]_vars
    /\ WF_vars(\E t \in TimePoints : Tick(t))
    /\ SF_vars(check_votes(TRUE, TRUE, TRUE))

----------------------------------------------------------------------------
(* The sheet reconciliation of cogs/google_sheets.py                       *)

Titles == {"A", "B"}
\* reaction.count of the yes and of the no emoji on an opening message
ReactionPairs == {<<1, 1>>, <<2, 1>>}
NewThreadReactions == <<1, 1>>
MaxThreads == 2
MaxRows == 4

Range(s) == {s[i] : i \in 1..Len(s)}

\* A thread that was deleted from the forum.
Gone == [name |-> "", reactions |-> <<0, 0>>, alive |-> FALSE]

\* all_threads, as thread ids; ids grow with creation time
all_threads == {t \in 1..Len(threads) : threads[t].alive}

\* current_threads = {thread.name: thread for thread in all_threads}: its keys
current_threads == {threads[t].name : t \in all_threads}

\* f"{(yes_votes / total_votes * 100):.1f}%" as tenths of a percent, or "0%"
ratio(yes, no) ==
    LET total == yes + no
    IN  IF total > 0
        THEN <<"%.1f%%", (yes * 2000 + total) \div (2 * total)>>
        ELSE <<"0%", 0>>

\* _process_thread on a thread whose opening message could be fetched
process_thread(t) ==
    [title |-> threads[t].name,
     content |-> "content",
     yes_votes |-> threads[t].reactions[1],
     no_votes |-> threads[t].reactions[2],
     ratio |-> ratio(threads[t].reactions[1], threads[t].reactions[2]),
     date_posted |-> t]

\* row_data of update_forum_data: columns B..G
row_data(thread_data) ==
    <<thread_data.title, thread_data.content, thread_data.yes_votes,
      thread_data.no_votes, thread_data.ratio, thread_data.date_posted>>

\* thread_data_with_timestamps after its sort, as rows: one row for every
\* thread of ids whose _process_thread did not return None, oldest first
RECURSIVE thread_rows(_, _)
thread_rows(t, failed) ==
    IF t > Len(threads) THEN <<>>
    ELSE (IF t \in all_threads \ failed THEN <<row_data(process_thread(t))>> ELSE <<>>)
         \o thread_rows(t + 1, failed)

\* `if row and row[0]`
HasKey(row) == row # <<>> /\ row[1] # ""

\* keys of existing_threads in dict order (order of first insertion)
RECURSIVE dict_keys(_, _, _)
dict_keys(values, i, acc) ==
    IF i > Len(values) THEN acc
    ELSE dict_keys(values, i + 1,
                   IF HasKey(values[i]) /\ values[i][1] \notin Range(acc)
                   THEN Append(acc, values[i][1]) ELSE acc)

\* existing_threads with the row of a key taken one too low
existing_threads_RowOffByOne(values) ==
    [k \in Range(dict_keys(values, 1, <<>>)) |->
        CHOOSE i \in 1..Len(values) :
            /\ HasKey(values[i]) /\ values[i][1] = k
            /\ \A j \in (i + 1)..Len(values) : ~(HasKey(values[j]) /\ values[j][1] = k)]

\* existing_threads = {row[0]: i + 2 for i, row in enumerate(existing_values)
\*                     if row and row[0]}: a later row of the same key wins
existing_threads(values) ==
    [k \in Range(dict_keys(values, 1, <<>>)) |->
        1 + CHOOSE i \in 1..Len(values) :
                /\ HasKey(values[i]) /\ values[i][1] = k
                /\ \A j \in (i + 1)..Len(values) : ~(HasKey(values[j]) /\ values[j][1] = k)]

\* updates['to_delete']: the row of every existing key that is the name of
\* no current thread
to_delete(values, current) ==
    LET gone == SelectSeq(dict_keys(values, 1, <<>>), LAMBDA k : k \notin current)
    IN  [i \in 1..Len(gone) |-> existing_threads(values)[gone[i]]]
\* to_update with one row per thread: the n-th row of a title goes to the
\* n-th sheet row holding that title
to_update_OwnRow(values, rows) ==
    LET found == SelectSeq(rows, LAMBDA r : r[1] \in DOMAIN existing_threads(values))
        held(k) == SelectSeq([i \in 1..Len(values) |-> i],
                             LAMBDA i : HasKey(values[i]) /\ values[i][1] = k)
        nth(i) == Cardinality({j \in 1..i : found[j][1] = found[i][1]})
    IN  [i \in 1..Len(found) |->
            [range |-> IF nth(i) <= Len(held(found[i][1]))
                       THEN 1 + held(found[i][1])[nth(i)]
                       ELSE existing_threads(values)[found[i][1]],
             values |-> found[i]]]

\* updates['to_update']: range B{n}:G{n} of the existing row, per thread row
to_update(values, rows) ==
    LET found == SelectSeq(rows, LAMBDA r : r[1] \in DOMAIN existing_threads(values))
    IN  [i \in 1..Len(found) |->
            [range |-> existing_threads(values)[found[i][1]], values |-> found[i]]]

to_add_All(values, rows) == rows

\* updates['to_add']: the thread rows whose name is no existing key
to_add(values, rows) ==
    SelectSeq(rows, LAMBDA r : r[1] \notin DOMAIN existing_threads(values))

RemoveAt(s, i) == SubSeq(s, 1, i - 1) \o SubSeq(s, i + 1, Len(s))

RECURSIVE sorted_ascending(_)
sorted_ascending(s) ==
    IF s = <<>> THEN <<>>
    ELSE LET i == CHOOSE i \in 1..Len(s) : \A j \in 1..Len(s) : s[i] <= s[j]
         IN  <<s[i]>> \o sorted_ascending(RemoveAt(s, i))

\* sorted(updates['to_delete'], reverse=True)
RECURSIVE sorted_reverse(_)
sorted_reverse(s) ==
    IF s = <<>> THEN <<>>
    ELSE LET i == CHOOSE i \in 1..Len(s) : \A j \in 1..Len(s) : s[i] >= s[j]
         IN  <<s[i]>> \o sorted_reverse(RemoveAt(s, i))

\* values.get drops the empty rows at the end of the range
RECURSIVE Trim(_)
Trim(values) ==
    IF values # <<>> /\ values[Len(values)] = <<>>
    THEN Trim(SubSeq(values, 1, Len(values) - 1))
    ELSE values

\* deleteDimension ROWS [row - 1, row): sheet row n is values[n - 1]
deleteDimension(values, row) ==
    IF row - 1 <= Len(values) THEN RemoveAt(values, row - 1) ELSE values

\* the requests of one spreadsheets.batchUpdate, applied in the order given
RECURSIVE batchUpdate(_, _)
batchUpdate(values, rows) ==
    IF rows = <<>> THEN values
    ELSE batchUpdate(deleteDimension(values, Head(rows)), Tail(rows))

\* one range B{n}:G{n} of values.batchUpdate; a range below the data leaves
\* empty rows in between
SetRow(values, row, data) ==
    IF row - 1 <= Len(values) THEN [values EXCEPT ![row - 1] = data]
    ELSE values \o [i \in 1..(row - 2 - Len(values)) |-> <<>>] \o <<data>>

\* the data of one values.batchUpdate, applied in the order given
RECURSIVE values_batchUpdate(_, _)
values_batchUpdate(values, data) ==
    IF data = <<>> THEN values
    ELSE values_batchUpdate(SetRow(values, Head(data).range, Head(data).values),
                            Tail(data))

\* values.append at B2:G2 with INSERT_ROWS: new rows are inserted right after
\* the table that starts at row 2, i.e. before its first empty row
values_append(values, rows) ==
    LET blank == {i \in 1..Len(values) : values[i] = <<>>}
        at == IF blank = {} THEN Len(values) + 1
              ELSE CHOOSE i \in blank : \A j \in blank : i <= j
    IN  SubSeq(values, 1, at - 1) \o rows \o SubSeq(values, at, Len(values))

on_store_error_Rollback(before, applied) == before

\* `except Exception as e: logger.error(...)` of update_forum_data: what the
\* calls before the raising one wrote stays in the sheet
on_store_error(before, applied) == applied

Call(kind, rows, ok) == [kind |-> kind, rows |-> rows, ok |-> ok]

\* _update_spreadsheet: the store calls it issues and the sheet it leaves;
\* fail_at names the call that raises, if it is issued
GoogleSheets_update_spreadsheet(values, u, fail_at) ==
    LET dels == sorted_reverse(u.to_delete)
        c1 == IF u.to_delete # <<>>
              THEN <<Call("deleteDimension", dels, fail_at # "deleteDimension")>>
              ELSE <<>>
        v1 == IF u.to_delete # <<>> THEN batchUpdate(values, dels) ELSE values
        c2 == IF u.to_update # <<>>
              THEN <<Call("values_batchUpdate",
                          [i \in 1..Len(u.to_update) |-> u.to_update[i].range],
                          fail_at # "values_batchUpdate")>>
              ELSE <<>>
        v2 == IF u.to_update # <<>> THEN values_batchUpdate(v1, u.to_update) ELSE v1
        c3 == IF u.to_add # <<>>
              THEN <<Call("values_append", <<>>, fail_at # "values_append")>>
              ELSE <<>>
        v3 == IF u.to_add # <<>> THEN values_append(v2, u.to_add) ELSE v2
    IN  IF c1 # <<>> /\ fail_at = "deleteDimension"
        THEN [values |-> values, calls |-> c1, ok |-> FALSE]
        ELSE IF c2 # <<>> /\ fail_at = "values_batchUpdate"
        THEN [values |-> Trim(on_store_error(values, v1)), calls |-> c1 \o c2, ok |-> FALSE]
        ELSE IF c3 # <<>> /\ fail_at = "values_append"
        THEN [values |-> Trim(on_store_error(values, v2)), calls |-> c1 \o c2 \o c3,
              ok |-> FALSE]
        ELSE [values |-> Trim(v3), calls |-> c1 \o c2 \o c3, ok |-> TRUE]

FailPoints == {"none", "deleteDimension", "values_batchUpdate", "values_append"}

\* A thread is posted in the tracked forum channel.
forum_create_thread(name) ==
    /\ pass.pc # "diffed"
    /\ Len(threads) < MaxThreads
    /\ threads' = Append(threads, [name |-> name, reactions |-> NewThreadReactions,
                                  alive |-> TRUE])
    /\ pass' = NoPass /\ updates' = NoUpdates /\ calls' = <<>> /\ snap' = NoSnap
    /\ UNCHANGED <<sheet, setup, notSheetVars>>

\* A thread is deleted from the forum.
forum_delete_thread(t) ==
    /\ pass.pc # "diffed"
    /\ t \in all_threads
    /\ threads' = [threads EXCEPT ![t] = Gone]
    /\ pass' = NoPass /\ updates' = NoUpdates /\ calls' = <<>> /\ snap' = NoSnap
    /\ UNCHANGED <<sheet, setup, notSheetVars>>

\* Users add yes reactions to a thread's opening message.
forum_react(t, reactions) ==
    /\ pass.pc # "diffed"
    /\ t \in all_threads
    /\ reactions[1] > threads[t].reactions[1]
    /\ threads' = [threads EXCEPT ![t].reactions = reactions]
    /\ pass' = NoPass /\ updates' = NoUpdates /\ calls' = <<>> /\ snap' = NoSnap
    /\ UNCHANGED <<sheet, setup, notSheetVars>>

\* update_forum_data up to its call of _update_spreadsheet: values.get, the
\* thread listing, _process_thread per thread (failed: the threads for which
\* it returned None) and the diff.  A failed values.get ends the pass.
update_forum_data(failed, ok_get) ==
    LET rows == thread_rows(1, failed)
        u == [to_delete |-> to_delete(sheet, current_threads),
              to_update |-> to_update(sheet, rows),
              to_add |-> to_add(sheet, rows)]
        seen == [values |-> sheet, current_threads |-> current_threads,
                 rows |-> rows, failed |-> failed]
        any == u.to_delete # <<>> \/ u.to_update # <<>> \/ u.to_add # <<>>
    IN  /\ pass.pc # "diffed"
        /\ failed \subseteq all_threads
        /\ ~ok_get => failed = {}
        /\ Len(sheet) + Len(u.to_add) <= MaxRows
        /\ pass' = IF ~ok_get THEN [pc |-> "done", result |-> "error"]
                   ELSE IF any THEN [pc |-> "diffed", result |-> "none"]
                   ELSE [pc |-> "done", result |-> "complete"]
        /\ updates' = IF ok_get THEN u ELSE NoUpdates
        /\ snap' = IF ok_get THEN seen ELSE NoSnap
        /\ calls' = <<>>
        /\ UNCHANGED <<threads, sheet, setup, notSheetVars>>

\* update_forum_data from its call of _update_spreadsheet on: an exception of
\* a store call is caught and logged by update_forum_data.
update_forum_data_write(fail_at) ==
    LET r == GoogleSheets_update_spreadsheet(sheet, updates, fail_at)
    IN  /\ pass.pc = "diffed"
        /\ sheet' = r.values
        /\ calls' = r.calls
        /\ pass' = [pc |-> "done", result |-> IF r.ok THEN "complete" ELSE "error"]
        /\ UNCHANGED <<threads, updates, snap, setup, notSheetVars>>

\* A row an earlier run left in the sheet for a thread older than those of
\* this run.
StaleRow(title) == <<title, "content", 1, 1, ratio(1, 1), 0>>

\* The sheet when the tracker starts: empty, or holding rows of earlier runs
\* whose threads were deleted since (D, E) or posted again (A).
InitialSheets == {<<>>, <<StaleRow("D"), StaleRow("E"), StaleRow("A")>>}

InitSheet ==
    /\ InitThread
    /\ InitMessage
    /\ InitCycle
    /\ available_tags = AllTags
    /\ InitForum
    /\ sheet \in InitialSheets

NextSheet ==
    \/ \E name \in Titles : forum_create_thread(name)
    \/ \E t \in 1..MaxThreads : forum_delete_thread(t)
    \/ \E t \in 1..MaxThreads, reactions \in ReactionPairs : forum_react(t, reactions)
    \/ \E failed \in SUBSET (1..MaxThreads), ok_get \in BOOLEAN : update_forum_data(failed, ok_get)
    \/ \E fail_at \in FailPoints : update_forum_data_write(fail_at)

SpecSheet == InitSheet /\ [][NextSheet]_vars

----------------------------------------------------------------------------
(* SpecOverlap: the periodic pass of update_tracker and the pass that a     *)
(* setup_forum_tracker command starts, on the same spreadsheet             *)

\* setup_forum_tracker up to the call of _update_spreadsheet in its
\* update_forum_data: nothing in the command or in update_forum_data looks at
\* whether the pass of update_tracker is under way.
setup_forum_tracker(failed, ok_get) ==
    LET rows == thread_rows(1, failed)
        u == [to_delete |-> to_delete(sheet, current_threads),
              to_update |-> to_update(sheet, rows),
              to_add |-> to_add(sheet, rows)]
        any == u.to_delete # <<>> \/ u.to_update # <<>> \/ u.to_add # <<>>
    IN  /\ setup.pc = "idle"
        /\ failed \subseteq all_threads
        /\ ~ok_get => failed = {}
        /\ Len(sheet) + Len(u.to_add) <= MaxRows
        /\ setup' = IF ok_get /\ any THEN [pc |-> "diffed", updates |-> u] ELSE NoSetup
        /\ UNCHANGED <<threads, sheet, pass, updates, calls, snap, notSheetVars>>

\* setup_forum_tracker from the call of _update_spreadsheet on
setup_forum_tracker_write(fail_at) ==
    LET r == GoogleSheets_update_spreadsheet(sheet, setup.updates, fail_at)
    IN  /\ setup.pc = "diffed"
        /\ sheet' = r.values
        /\ setup' = NoSetup
        /\ UNCHANGED <<threads, pass, updates, calls, snap, notSheetVars>>

\* The tracker is set up on an empty sheet.
InitOverlap ==
    /\ InitThread
    /\ InitMessage
    /\ InitCycle
    /\ available_tags = AllTags
    /\ InitForum
    /\ sheet = <<>>

\* Both passes with every thread read and every store call succeeding.
NextOverlap ==
    \/ \E name \in Titles : forum_create_thread(name)
    \/ \E t \in 1..MaxThreads : forum_delete_thread(t)
    \/ \E t \in 1..MaxThreads, reactions \in ReactionPairs : forum_react(t, reactions)
    \/ update_forum_data({}, TRUE)
    \/ update_forum_data_write("none")
    \/ setup_forum_tracker({}, TRUE)
    \/ setup_forum_tracker_write("none")

SpecOverlap == InitOverlap /\ [][NextOverlap]_vars

----------------------------------------------------------------------------
(* Vote counting over the reactions of one opening message                 *)

\* User reactions per emoji.
MaxReactions == 2

NEW_YES_EMOJI == "pickle_yes"
NEW_NO_EMOJI == "pickle_no"

\* reaction.count: the users' reactions plus the bot's own
reaction_count(e) == user_reactions[e] + (IF e \in bot_on THEN 1 ELSE 0)

first_message_reactions_AllEmoji == Emoji

\* first_message.reactions: the emoji somebody has reacted with
first_message_reactions == {e \in Emoji : reaction_count(e) > 0}

RECURSIVE sum_counts(_, _)
\* sum of reaction.count - discount over the reactions in S
sum_counts(S, discount) ==
    IF S = {}
    THEN 0
    ELSE LET e == CHOOSE x \in S : TRUE
         IN  (reaction_count(e) - discount) + sum_counts(S \ {e}, discount)

\* the yes and the no emoji each counter matches
YesEmoji(op) ==
    CASE op = "count_votes" -> {"pickle_yes", "check", "aboba"}
      [] op = "GoogleSheets_process_thread" -> {"pickle_yes", "aboba"}
      [] op = "SyncCog_process_thread_data" -> {"pickle_yes", "check"}
      [] op = "SpreadsheetService_process_thread_data" -> {"pickle_yes"}

NoEmoji(op) ==
    CASE op = "count_votes" -> {"pickle_no", "cross"}
      [] op = "GoogleSheets_process_thread" -> {"pickle_no"}
      [] op = "SyncCog_process_thread_data" -> {"pickle_no", "cross"}
      [] op = "SpreadsheetService_process_thread_data" -> {"pickle_no"}

\* what each counter takes off a matched reaction.count
Discount(op) == IF op = "GoogleSheets_process_thread" THEN 0 ELSE 1

\* the record a counter produces from the message's reactions
Counted(op) ==
    [op |-> op,
     yes_votes |-> sum_counts(YesEmoji(op) \cap first_message_reactions, Discount(op)),
     no_votes |-> sum_counts(NoEmoji(op) \cap first_message_reactions, Discount(op))]

\* SpreadsheetCog.count_votes
SpreadsheetCog_count_votes ==
    /\ record' = Counted("count_votes")
    /\ UNCHANGED <<user_reactions, bot_on, notMessageVars>>

\* GoogleSheets._process_thread, its two sums
GoogleSheets_process_thread ==
    /\ record' = Counted("GoogleSheets_process_thread")
    /\ UNCHANGED <<user_reactions, bot_on, notMessageVars>>

\* SyncCog.process_thread_data, its reaction loop
SyncCog_process_thread_data ==
    /\ record' = Counted("SyncCog_process_thread_data")
    /\ UNCHANGED <<user_reactions, bot_on, notMessageVars>>

\* SpreadsheetService.process_thread_data, its reaction loop
SpreadsheetService_process_thread_data ==
    /\ record' = Counted("SpreadsheetService_process_thread_data")
    /\ UNCHANGED <<user_reactions, bot_on, notMessageVars>>

\* on_thread_create adds the bot's yes reaction, then its no reaction; a
\* failing add_reaction ends the handler.
on_thread_create_seed(ok_yes, ok_no) ==
    /\ bot_on = {}
    /\ ok_yes
    /\ bot_on' = IF ok_no THEN {NEW_YES_EMOJI, NEW_NO_EMOJI} ELSE {NEW_YES_EMOJI}
    /\ record' = NoRecord
    /\ UNCHANGED <<user_reactions, notMessageVars>>

\* The inputs: any number of user reactions on every emoji.
InitVotes ==
    /\ InitThread
    /\ InitCycle
    /\ available_tags = AllTags
    /\ InitForum
    /\ sheet = <<>>
    /\ user_reactions \in [Emoji -> 0..MaxReactions]
    /\ bot_on = {}
    /\ record = NoRecord

NextVotes ==
    \/ \E ok_yes, ok_no \in BOOLEAN : on_thread_create_seed(ok_yes, ok_no)
    \/ SpreadsheetCog_count_votes
    \/ GoogleSheets_process_thread
    \/ SyncCog_process_thread_data
    \/ SpreadsheetService_process_thread_data

SpecVotes == InitVotes /\ [][NextVotes]_vars

----------------------------------------------------------------------------
(* The periodic scan cycles over the enabled servers and their threads     *)

ScanOps_All == {"check_votes", "check_ratios", "update_tracker"}

\* What a cycle does with a server before it looks at the server's threads:
\* "continue" to the next server or "enter" the thread loop.
server_check(op, kind) ==
    CASE op = "check_votes" -> IF kind = "no_channel" THEN "continue" ELSE "enter"
      [] op = "check_ratios" -> IF kind = "ok" THEN "enter" ELSE "continue"
      [] op = "update_tracker" -> IF kind = "no_channel" THEN "continue" ELSE "enter"

\* What follows a server's (archived) thread loop: check_votes goes on to
\* `async for thread in channel.threads()`, which raises TypeError since
\* threads is a list; the exception ends the cycle.
after_threads(op) == IF op = "check_votes" THEN "abort" ELSE "next"

\* whether the per-thread handler of the cycle edits tags
edits_tags(op) == op \in {"check_votes", "check_ratios"}

edit_attempts_Retry(ok_edit) == IF ok_edit THEN 1 ELSE 2

\* thread.edit calls update_thread_tags makes for one thread
edit_attempts(ok_edit) == 1

LastServer == Cardinality(ServerIds)
LastThread == Cardinality(ScanThreads)

\* the cycle after it has dealt with server i
NextServer(i) ==
    IF i = LastServer
    THEN [scan EXCEPT !.result = "done"]
    ELSE [scan EXCEPT !.server = i + 1, !.thread = 0]

\* a task loop fires: the cycle starts at the first server
scan_start(op) ==
    /\ scan.result # "running"
    /\ scan' = [op |-> op, server |-> 1, thread |-> 0, result |-> "running"]
    /\ served' = {}
    /\ evaluated' = {}
    /\ edit_calls' = [k \in ThreadKeys |-> 0]
    /\ failed_edits' = {}
    /\ UNCHANGED <<servers, due, exempt_threads, syncVars, tagVars, sheetVars, messageVars, batchVars>>

\* the head of the per-server loop body
scan_server ==
    /\ scan.result = "running"
    /\ scan.thread = 0
    /\ scan' = IF server_check(scan.op, servers[scan.server]) = "continue"
               THEN NextServer(scan.server)
               ELSE [scan EXCEPT !.thread = 1]
    /\ UNCHANGED <<servers, due, served, evaluated, edit_calls, failed_edits,
                   exempt_threads, syncVars, tagVars, sheetVars, messageVars, batchVars>>

\* the per-thread handler on the current thread, and the step to what follows
scan_thread(ok_edit) ==
    LET key == <<scan.server, scan.thread>>
        edits == edits_tags(scan.op) /\ key \in due
    IN  /\ scan.result = "running"
        /\ scan.thread >= 1
        /\ evaluated' = evaluated \cup {key}
        /\ edit_calls' = IF edits
                         THEN [edit_calls EXCEPT ![key] = @ + edit_attempts(ok_edit)]
                         ELSE edit_calls
        /\ due' = IF edits /\ ok_edit THEN due \ {key} ELSE due
        /\ failed_edits' = IF edits /\ ~ok_edit THEN failed_edits \cup {key}
                           ELSE failed_edits
        /\ IF scan.thread < LastThread
           THEN /\ scan' = [scan EXCEPT !.thread = @ + 1]
                /\ UNCHANGED served
           ELSE IF after_threads(scan.op) = "abort"
           THEN /\ scan' = [scan EXCEPT !.result = "aborted"]
                /\ UNCHANGED served
           ELSE /\ scan' = NextServer(scan.server)
                /\ served' = served \cup {scan.server}
        /\ UNCHANGED <<servers, exempt_threads, syncVars, tagVars, sheetVars, messageVars, batchVars>>

\* votes move a thread across a threshold between two cycles
votes_shift(key) ==
    /\ scan.result # "running"
    /\ key \notin due
    /\ due' = due \cup {key}
    /\ UNCHANGED <<servers, scan, served, evaluated, edit_calls, failed_edits,
                   exempt_threads, syncVars, tagVars, sheetVars, messageVars, batchVars>>

\* Any configuration of the servers, any set of threads due for a tag change.
InitServers ==
    /\ InitThread
    /\ InitMessage
    /\ available_tags = AllTags
    /\ InitForum
    /\ sheet = <<>>
    /\ exempt_threads = {}
    /\ InitSync
    /\ fanout = NoFanout
    /\ servers \in [ServerIds -> ConfigKinds]
    /\ due \in SUBSET ThreadKeys
    /\ scan = NoScan
    /\ served = {}
    /\ evaluated = {}
    /\ edit_calls = [k \in ThreadKeys |-> 0]
    /\ failed_edits = {}

NextServers ==
    \/ \E op \in ScanOps_All : scan_start(op)
    \/ scan_server
    \/ \E ok_edit \in BOOLEAN : scan_thread(ok_edit)
    \/ \E key \in ThreadKeys : votes_shift(key)

SpecServers == InitServers /\ [][NextServers]_vars

----------------------------------------------------------------------------
(* The sync cycles of spreadsheets.py and the sheet writers                *)

\* last_thread_states.get(thread_id, 0)
prev_ratio(t) ==
    IF \E p \in last_thread_states : p[1] = t
    THEN (CHOOSE p \in last_thread_states : p[1] = t)[2]
    ELSE 0

\* last_thread_states[thread_id] = ratio
store_ratio(states, t, pct) == {p \in states : p[1] # t} \cup {<<t, pct>>}
\* a crossing test that does not look at skip_notifications
crossed_AlsoFirstSync(skip_notifications, prev, pct) ==
    prev <= NotifyPct /\ pct > NotifyPct

crossed_LT(skip_notifications, prev, pct) ==
    ~skip_notifications /\ prev < NotifyPct /\ pct > NotifyPct

\* not skip_notifications and prev_ratio <= 50 and ratio > 50
crossed(skip_notifications, prev, pct) ==
    ~skip_notifications /\ prev <= NotifyPct /\ pct > NotifyPct

\* the columns B..G of a row, by what each writer puts in them
row_layout(writer) ==
    CASE writer = "update_forum_data" ->
             <<"title", "content", "yes_votes", "no_votes", "ratio", "date_posted">>
      [] writer = "add_to_spreadsheet" ->
             <<"title", "content", "yes_votes", "no_votes", "ratio", "date_posted">>
      [] writer = "batch_update_values" ->
             <<"title", "content", "yes_votes", "no_votes", "ratio", "date_posted">>
      [] writer = "update_sheet" ->
             <<"title", "yes_votes", "no_votes", "tags", "ratio", "date_posted">>
      [] OTHER -> <<>>

Written(op, writer, rows_of, failed) ==
    [op |-> op, writer |-> writer, threads |-> rows_of, failed |-> failed,
     layout |-> row_layout(writer)]

AllIdle == loop.pos = 0 /\ \A r \in Runners : run[r].pc = "idle"

\* users react: the thread's percentage changes; a rise above 50% is a new
\* crossing. last_write describes the last write only until something else
\* happens.
set_ratio(t, v) ==
    /\ v # ratio_now[t]
    /\ \A r \in Runners : run[r].task[t] # "sending"
    /\ ratio_now' = [ratio_now EXCEPT ![t] = v]
    /\ notes' = IF v > NotifyPct THEN [notes EXCEPT ![t] = 0] ELSE notes
    /\ last_write' = NoWrite
    /\ UNCHANGED <<last_thread_states, run, loop, cycles_started,
                   exempt_threads, scanVars, tagVars, sheetVars, messageVars, batchVars>>

\* sync_all_threads up to the fan-out of the batch
sync_all_threads_start(r) ==
    [pc |-> "batch", first |-> (last_thread_states = {}),
     ordinal |-> IF cycles_started = 0 THEN 1 ELSE 2,
     task |-> [t \in SyncThreads |-> "todo"],
     ratio |-> [t \in SyncThreads |-> 0]]

\* the sync command calls sync_all_threads once its tag loop is over
sync_command ==
    /\ run["command"].pc = "idle"
    /\ run' = [run EXCEPT !["command"] = sync_all_threads_start("command")]
    /\ cycles_started' = IF cycles_started = 0 THEN 1 ELSE 2
    /\ last_write' = NoWrite
    /\ UNCHANGED <<ratio_now, last_thread_states, loop, notes,
                   exempt_threads, scanVars, tagVars, sheetVars, messageVars, batchVars>>

\* combined_sync_task fires
combined_sync_loop_start ==
    /\ loop.pos = 0
    /\ loop' = [pos |-> 1, waiting |-> FALSE, syncs |-> 0]
    /\ last_write' = NoWrite
    /\ UNCHANGED <<ratio_now, last_thread_states, run, notes, cycles_started,
                   exempt_threads, scanVars, tagVars, sheetVars,
                   messageVars, batchVars>>

\* the loop body of combined_sync_task on one thread; won: the thread is
\* between 24 and 24.1 hours old, its tags were updated and it has at least
\* 50.1%, so sync_all_threads(guild, None) is awaited inside the loop
combined_sync_loop_thread(won) ==
    /\ loop.pos \in SyncThreads
    /\ ~loop.waiting
    /\ won => ratio_now[loop.pos] > NotifyPct
    /\ IF won
       THEN /\ loop' = [loop EXCEPT !.waiting = TRUE, !.syncs = @ + 1]
            /\ run' = [run EXCEPT !["task"] = sync_all_threads_start("task")]
            /\ cycles_started' = IF cycles_started = 0 THEN 1 ELSE 2
       ELSE /\ loop' = [loop EXCEPT
                           !.pos = IF loop.pos = Cardinality(SyncThreads)
                                   THEN 0 ELSE loop.pos + 1]
            /\ UNCHANGED <<run, cycles_started>>
    /\ last_write' = NoWrite
    /\ UNCHANGED <<ratio_now, last_thread_states, notes,
                   exempt_threads, scanVars, tagVars, sheetVars, messageVars, batchVars>>

\* the awaited sync_all_threads has returned or raised: the loop goes on
combined_sync_loop_resume ==
    /\ loop.waiting
    /\ run["task"].pc = "idle"
    /\ loop' = [loop EXCEPT !.waiting = FALSE,
                            !.pos = IF loop.pos = Cardinality(SyncThreads)
                                    THEN 0 ELSE loop.pos + 1]
    /\ UNCHANGED <<ratio_now, last_thread_states, run, notes, cycles_started,
                   last_write, exempt_threads, scanVars, tagVars, sheetVars,
                   messageVars, batchVars>>

\* SpreadsheetService.process_thread_data up to its first await after the
\* fetch: it reads the map and either starts sending or writes the map
process_thread_data(r, t, ok_fetch) ==
    /\ run[r].pc = "batch"
    /\ run[r].task[t] = "todo"
    /\ IF ~ok_fetch
       THEN /\ run' = [run EXCEPT ![r].task[t] = "skipped"]
            /\ UNCHANGED last_thread_states
       ELSE IF crossed(run[r].first, prev_ratio(t), ratio_now[t])
       THEN /\ run' = [run EXCEPT ![r].task[t] = "sending",
                                  ![r].ratio[t] = ratio_now[t]]
            /\ UNCHANGED last_thread_states
       ELSE /\ run' = [run EXCEPT ![r].task[t] = "done"]
            /\ last_thread_states' = store_ratio(last_thread_states, t, ratio_now[t])
    /\ UNCHANGED <<ratio_now, loop, notes, cycles_started, last_write,
                   exempt_threads, scanVars, tagVars, sheetVars, messageVars, batchVars>>

\* send_approval_notification returns: the map is written with the ratio
\* computed before the await
send_approval_notification(r, t) ==
    /\ run[r].pc = "batch"
    /\ run[r].task[t] = "sending"
    /\ notes[t] < MaxNotes
    /\ notes' = [notes EXCEPT ![t] = @ + 1]
    /\ last_thread_states' = store_ratio(last_thread_states, t, run[r].ratio[t])
    /\ run' = [run EXCEPT ![r].task[t] = "done", ![r].ratio[t] = 0]
    /\ UNCHANGED <<ratio_now, loop, cycles_started, last_write,
                   exempt_threads, scanVars, tagVars, sheetVars, messageVars, batchVars>>

\* sync_all_threads after the gather: progress_message.edit, which raises
\* for the None combined_sync_task passes, then update_sheet
sync_all_threads_join(r) ==
    LET data == {t \in SyncThreads : run[r].task[t] = "done"}
        skipped == {t \in SyncThreads : run[r].task[t] = "skipped"}
    IN  /\ run[r].pc = "batch"
        /\ data \cup skipped = SyncThreads
        /\ run' = [run EXCEPT ![r] = NoRun]
        /\ last_write' =
               IF r = "task"
               THEN Written("sync_all_threads_no_message", "none", {}, skipped)
               ELSE IF data = {}
               THEN Written("sync_all_threads", "none", {}, skipped)
               ELSE Written("sync_all_threads", "update_sheet", data, skipped)
        /\ UNCHANGED <<ratio_now, last_thread_states, loop, notes, cycles_started,
                       exempt_threads, scanVars, tagVars, sheetVars, messageVars, batchVars>>

\* SpreadsheetCog.sync_spreadsheet: the gather over the batch raises when a
\* fetch_message raises or count_votes returns None
sync_spreadsheet(failed) ==
    /\ AllIdle
    /\ last_write' = IF failed = {}
                     THEN Written("sync_spreadsheet", "batch_update_values",
                                  SyncThreads, {})
                     ELSE Written("sync_spreadsheet", "none", {}, failed)
    /\ UNCHANGED <<ratio_now, last_thread_states, run, loop, notes, cycles_started,
                   exempt_threads, scanVars, tagVars, sheetVars, messageVars, batchVars>>

\* the two writers of single rows: add_to_spreadsheet on approval and the
\* rows update_forum_data updates or appends
write_row(writer, t) ==
    /\ AllIdle
    /\ last_write' = Written(writer, writer, {t}, {})
    /\ UNCHANGED <<ratio_now, last_thread_states, run, loop, notes, cycles_started,
                   exempt_threads, scanVars, tagVars, sheetVars, messageVars, batchVars>>

NextSync ==
    \/ \E t \in SyncThreads, v \in Ratios : set_ratio(t, v)
    \/ sync_command
    \/ combined_sync_loop_start
    \/ \E won \in BOOLEAN : combined_sync_loop_thread(won)
    \/ combined_sync_loop_resume
    \/ \E r \in Runners, t \in SyncThreads, ok_fetch \in BOOLEAN :
          process_thread_data(r, t, ok_fetch)
    \/ \E r \in Runners, t \in SyncThreads : send_approval_notification(r, t)
    \/ \E r \in Runners : sync_all_threads_join(r)
    \/ \E failed \in SUBSET SyncThreads : sync_spreadsheet(failed)
    \/ \E writer \in {"add_to_spreadsheet", "update_forum_data"}, t \in SyncThreads :
          write_row(writer, t)

InitSyncCycles ==
    /\ InitThread
    /\ InitMessage
    /\ InitCycle
    /\ available_tags = AllTags
    /\ InitForum
    /\ sheet = <<>>

SpecSync == InitSyncCycles /\ [][NextSync]_vars

----------------------------------------------------------------------------
(* The writers that clear the data range and write every row again:        *)
(* SpreadsheetService.update_sheet, called by sync_all_threads, and         *)
(* GoogleSheetsClient.batch_update_values, called by the sync_spreadsheet   *)
(* command.  A store call that fails has changed nothing.                   *)

\* how a store call ends; HttpError is the one the helpers catch
CallOutcomes == {"ok", "HttpError", "Exception"}

\* f"{ratio:.2f}%" of process_thread_data, in hundredths of a percent
ratio_2f(yes, no) ==
    IF yes + no > 0
    THEN <<"%.2f%%", (yes * 20000 + (yes + no)) \div (2 * (yes + no))>>
    ELSE <<"%.2f%%", 0>>

\* the row update_sheet builds from the record of process_thread_data
SpreadsheetService_row(t) ==
    LET yes_count == threads[t].reactions[1] - 1
        no_count == threads[t].reactions[2] - 1
    IN  <<threads[t].name, yes_count, no_count, "tags",
          ratio_2f(yes_count, no_count), t>>

\* row_data of sync_spreadsheet; f"{vote_ratio:.2%}" is the same number as
\* the service's, under its own format
SpreadsheetCog_row(t) ==
    LET yes_votes_t == threads[t].reactions[1] - 1
        no_votes_t == threads[t].reactions[2] - 1
    IN  <<threads[t].name, "content", <<"str", yes_votes_t>>, <<"str", no_votes_t>>,
          <<"percent.2", ratio_2f(yes_votes_t, no_votes_t)[2]>>, t>>

\* the threads sorted by created_at, reverse=True, without those that gave
\* no record
RECURSIVE newest_first(_, _)
newest_first(t, dropped) ==
    IF t < 1 THEN <<>>
    ELSE (IF t \in all_threads \ dropped THEN <<t>> ELSE <<>>)
         \o newest_first(t - 1, dropped)

\* values.clear on B2:G1000 or B2:G
values_clear(values) == <<>>

\* values.update at B2:G{len(values) + 1}
values_update(values, rows) == rows \o SubSeq(values, Len(rows) + 1, Len(values))

Outcome(values, called, result) ==
    [values |-> values, calls |-> called, result |-> result]

\* SpreadsheetService.update_sheet
update_sheet(values, rows, clear, store) ==
    IF rows = <<>>
    THEN Outcome(values, <<>>, "no_data")
    ELSE IF clear # "ok"
    THEN Outcome(values, <<Call("values_clear", <<>>, FALSE)>>, "clear_failed")
    ELSE IF store # "ok"
    THEN Outcome(values_clear(values),
                 <<Call("values_clear", <<>>, TRUE), Call("values_update", <<>>, FALSE)>>,
                 "update_failed")
    ELSE Outcome(values_update(values_clear(values), rows),
                 <<Call("values_clear", <<>>, TRUE), Call("values_update", <<>>, TRUE)>>,
                 "complete")

\* a sync_all_threads that clears the data range before it looks at what it
\* collected
sync_all_threads_tail_ClearsFirst(values, rows, progress_message, clear, store) ==
    IF ~progress_message
    THEN Outcome(values, <<>>, "raised")
    ELSE IF rows # <<>>
    THEN update_sheet(values, rows, clear, store)
    ELSE Outcome(values_clear(values), <<Call("values_clear", <<>>, TRUE)>>, "no_data")

\* sync_all_threads from its batch loop on, for a channel with threads:
\* progress_message.edit raises on the None the timer passes; update_sheet is
\* called `if all_thread_data`
sync_all_threads_tail(values, rows, progress_message, clear, store) ==
    IF ~progress_message
    THEN Outcome(values, <<>>, "raised")
    ELSE IF rows # <<>>
    THEN update_sheet(values, rows, clear, store)
    ELSE Outcome(values, <<>>, "no_data")

\* GoogleSheetsClient.clear_range: an HttpError is caught and False returned
clear_range(values, clear) ==
    IF clear = "ok" THEN [values |-> values_clear(values), returns |-> "True"]
    ELSE IF clear = "HttpError" THEN [values |-> values, returns |-> "False"]
    ELSE [values |-> values, returns |-> "raised"]

\* GoogleSheetsClient.batch_update_values: the result of clear_range is not
\* looked at; the rows go to B{i}:G{i}, i from 2; then the format request
batch_update_values(values, data, clear, store, format) ==
    LET c == clear_range(values, clear)
        batch_data == [i \in 1..Len(data) |-> [range |-> i + 1, values |-> data[i]]]
        c1 == <<Call("values_clear", <<>>, clear = "ok")>>
        c2 == <<Call("values_batchUpdate",
                     [i \in 1..Len(data) |-> i + 1], store = "ok")>>
        c3 == <<Call("batchUpdate_format", <<>>, format = "ok")>>
    IN  IF c.returns = "raised"
        THEN Outcome(values, c1, "raised")
        ELSE IF store # "ok"
        THEN Outcome(c.values, c1 \o c2,
                     IF store = "HttpError" THEN "False" ELSE "raised")
        ELSE Outcome(values_batchUpdate(c.values, batch_data), c1 \o c2 \o c3,
                     IF format = "ok" THEN "True"
                     ELSE IF format = "HttpError" THEN "False" ELSE "raised")

\* A store call that is not issued has no outcome to choose: the outcomes
\* beyond the calls issued are "ok".
Unissued(called, outcomes) ==
    \A i \in 1..Len(outcomes) : i > Len(called) => outcomes[i] = "ok"

\* What a full sync saw: the sheet before it, the threads that gave no
\* record and the rows it collected.
Seen(rows, failed) ==
    [values |-> sheet, current_threads |-> current_threads, rows |-> rows,
     failed |-> failed]

\* SpreadsheetService.sync_all_threads, one cycle; failed: the threads whose
\* process_thread_data returned None
SpreadsheetService_sync_all_threads(progress_message, failed, clear, store) ==
    LET ids == newest_first(Len(threads), failed)
        rows == [i \in 1..Len(ids) |-> SpreadsheetService_row(ids[i])]
        r == IF all_threads = {}
             THEN Outcome(sheet, <<>>, "no_threads")
             ELSE sync_all_threads_tail(sheet, rows, progress_message, clear, store)
    IN  /\ failed \subseteq all_threads
        /\ Unissued(r.calls, <<clear, store>>)
        /\ sheet' = r.values
        /\ calls' = r.calls
        /\ pass' = [pc |-> "done", result |-> r.result, op |-> "sync_all_threads"]
        /\ snap' = Seen(rows, failed)
        /\ UNCHANGED <<threads, updates, setup, notSheetVars>>

\* SpreadsheetCog.sync_spreadsheet, one run; failed: the threads whose
\* fetch_message raised or whose count_votes returned None, which makes the
\* gather raise; set_column_widths follows a batch_update_values that
\* returned True
SpreadsheetCog_sync_spreadsheet(failed, clear, store, format) ==
    LET ids == newest_first(Len(threads), {})
        batch_data == IF failed = {}
                      THEN [i \in 1..Len(ids) |-> SpreadsheetCog_row(ids[i])]
                      ELSE <<>>
        r == IF failed # {}
             THEN Outcome(sheet, <<>>, "raised")
             ELSE IF batch_data # <<>>
             THEN batch_update_values(sheet, batch_data, clear, store, format)
             ELSE Outcome(sheet, <<>>, "no_data")
    IN  /\ failed \subseteq all_threads
        /\ Unissued(r.calls, <<clear, store, format>>)
        /\ sheet' = r.values
        /\ calls' = r.calls \o (IF r.result = "True"
                                THEN <<Call("set_column_widths", <<>>, TRUE)>>
                                ELSE <<>>)
        /\ pass' = [pc |-> "done", result |-> r.result, op |-> "sync_spreadsheet"]
        /\ snap' = Seen(batch_data, failed)
        /\ UNCHANGED <<threads, updates, setup, notSheetVars>>

InitRewrite ==
    /\ InitThread
    /\ InitMessage
    /\ InitCycle
    /\ available_tags = AllTags
    /\ InitForum
    /\ sheet \in InitialSheets

NextRewrite ==
    \/ \E name \in Titles : forum_create_thread(name)
    \/ \E t \in 1..MaxThreads : forum_delete_thread(t)
    \/ \E progress_message \in BOOLEAN, failed \in SUBSET (1..MaxThreads),
          clear \in CallOutcomes, store \in CallOutcomes :
          SpreadsheetService_sync_all_threads(progress_message, failed, clear, store)
    \/ \E failed \in SUBSET (1..MaxThreads),
          clear \in CallOutcomes, store \in CallOutcomes, format \in CallOutcomes :
          SpreadsheetCog_sync_spreadsheet(failed, clear, store, format)

SpecRewrite == InitRewrite /\ [][NextRewrite]_vars

----------------------------------------------------------------------------
(* The batch loop of the three full syncs: the threads are cut into        *)
(* slices, one task per thread of a slice is handed to asyncio.gather, and  *)
(* the loop goes on when the gather has returned.                           *)

\* Threads a channel may hold.
MaxForumThreads == 12

FanoutOps == {"sync_all_threads", "update_forum_data", "sync_spreadsheet"}

\* batch_size of sync_all_threads, BATCH_SIZE of update_forum_data and of
\* sync_spreadsheet
batch_size(op) ==
    CASE op = "sync_all_threads" -> 10
      [] op = "update_forum_data" -> 10
      [] op = "sync_spreadsheet" -> 50

\* len(all_threads[i : i + batch_size])
slice_len(op, total, i) ==
    IF total - i < batch_size(op) THEN total - i ELSE batch_size(op)

\* for i in range(0, total, batch_size): the tasks of the first slice are
\* created and awaited together
full_sync_start(op, total) ==
    /\ fanout.op = "none"
    /\ fanout' = [op |-> op, total |-> total, i |-> 0,
                  in_flight |-> slice_len(op, total, 0)]
    /\ UNCHANGED <<exempt_threads, scanVars, syncVars, tagVars, sheetVars, messageVars>>

\* one task of the slice returns
task_returns ==
    /\ fanout.in_flight > 0
    /\ fanout' = [fanout EXCEPT !.in_flight = @ - 1]
    /\ UNCHANGED <<exempt_threads, scanVars, syncVars, tagVars, sheetVars, messageVars>>

\* asyncio.gather returns when every task of the slice has: the next slice
\* starts
gather_returns ==
    /\ fanout.op # "none"
    /\ fanout.in_flight = 0
    /\ fanout.i + batch_size(fanout.op) < fanout.total
    /\ fanout' = [fanout EXCEPT
                     !.i = @ + batch_size(fanout.op),
                     !.in_flight = slice_len(fanout.op, fanout.total,
                                             fanout.i + batch_size(fanout.op))]
    /\ UNCHANGED <<exempt_threads, scanVars, syncVars, tagVars, sheetVars, messageVars>>

\* the range is exhausted: the loop is over
full_sync_end ==
    /\ fanout.op # "none"
    /\ fanout.in_flight = 0
    /\ fanout.i + batch_size(fanout.op) >= fanout.total
    /\ fanout' = NoFanout
    /\ UNCHANGED <<exempt_threads, scanVars, syncVars, tagVars, sheetVars, messageVars>>

InitBatches ==
    /\ InitThread
    /\ InitMessage
    /\ InitCycle
    /\ available_tags = AllTags
    /\ InitForum
    /\ sheet = <<>>

NextBatches ==
    \/ \E op \in FanoutOps, total \in 0..MaxForumThreads : full_sync_start(op, total)
    \/ task_returns
    \/ gather_returns
    \/ full_sync_end

SpecBatches == InitBatches /\ [][NextBatches]_vars


----------------------------------------------------------------------------
(* Properties of the status-tag life cycle                                 *)

Approved == ADDED_TO_LIST \in applied_tags
Rejected == NOT_IN_LIST \in applied_tags
Pending == INITIAL_VOTE \in applied_tags /\ applied_tags \cap FinalTags = {}

\* The handler of this step ended without a provider failure, in a channel
\* that offers every status tag.
NoFailure ==
    /\ StatusTags \subseteq available_tags
    /\ last'.result \notin {"fetch_failed", "edit_failed", "tag_missing"}

\* demote_ratio <= ratio <= approve_ratio (0.34 <= r <= 0.501), with votes
InBand ==
    /\ total_votes > 0
    /\ yes_votes * 100 >= DemoteRatioPct * total_votes
    /\ yes_votes * 1000 <= VotePctTenths * total_votes

\* ratio < demote_ratio, the ratio of a thread without votes being 0
RatioBelowDemote == total_votes = 0 \/ yes_votes * 100 < DemoteRatioPct * total_votes

\* C1: an Approved thread past min age whose ratio lies in the hysteresis
\* band [0.34, 0.501] is still Approved, and not Rejected, after
\* check_thread_ratio and after either manage_thread_tags.
C1_HysteresisBandHolds ==
    [][(/\ exists /\ ThreadAge > MinAgeHours /\ Approved /\ InBand
        /\ last'.op \in {"check_thread_ratio", "SyncCog_manage_thread_tags",
                         "DiscordBot_manage_thread_tags"}
        /\ NoFailure)
       => (ADDED_TO_LIST \in applied_tags' /\ NOT_IN_LIST \notin applied_tags')]_vars

\* C2: a thread younger than min_age_hours carries neither the Approved nor
\* the Rejected tag, whatever its votes and whichever handlers have run.
C2_YoungThreadNeverFinal ==
    (exists /\ ThreadAge < MinAgeHours) => applied_tags \cap FinalTags = {}

\* A young thread with a winning ratio that fix_threads has just edited.
C2_Witness ==
    /\ exists /\ ThreadAge < MinAgeHours /\ ThreadAge > 0
    /\ yes_votes * 2 > total_votes
    /\ last.op = "fix_threads" /\ last.result = "edited"
    /\ applied_tags \cap StatusTags = {INITIAL_VOTE}

C4_TieNeverApproves ==
    [][(/\ exists /\ yes_votes = no_votes /\ total_votes > 0 /\ ~Approved
        /\ last'.op \in {"process_thread_votes", "check_thread_ratio",
                         "SyncCog_manage_thread_tags",
                         "DiscordBot_manage_thread_tags", "fix_threads"})
       => ADDED_TO_LIST \notin applied_tags']_vars

\* C5: after check_thread_ratio has run without failure on an Approved
\* thread past min age whose ratio is below 0.34, the thread is Rejected and
\* no longer Approved.
C5_DemotedBelowDemoteRatio ==
    [][(/\ exists /\ ThreadAge >= MinAgeHours /\ Approved /\ RatioBelowDemote
        /\ last'.op = "check_thread_ratio"
        /\ NoFailure)
       => (NOT_IN_LIST \in applied_tags' /\ ADDED_TO_LIST \notin applied_tags')]_vars

\* C6: a thread without counted votes is never given the Approved tag by a
\* status evaluation, and is not Approved after check_thread_ratio or either
\* manage_thread_tags has run on it without failure, whatever its status
\* before.
C6_ZeroVotesNeverApproved ==
    [][(/\ exists /\ total_votes = 0
        /\ last'.op \in {"check_thread_ratio", "process_thread_votes",
                         "SyncCog_manage_thread_tags",
                         "DiscordBot_manage_thread_tags"}
        /\ NoFailure)
       => /\ ~Approved => ADDED_TO_LIST \notin applied_tags'
          /\ last'.op # "process_thread_votes" => ADDED_TO_LIST \notin applied_tags']_vars

\* C7: a Pending thread past min age without votes is Rejected after the
\* next status evaluation that runs on it without failure.
C7_ZeroVotesFallToRejected ==
    [][(/\ exists /\ ThreadAge >= MinAgeHours /\ total_votes = 0 /\ Pending
        /\ last'.op \in {"process_thread_votes", "SyncCog_manage_thread_tags"}
        /\ NoFailure)
       => NOT_IN_LIST \in applied_tags']_vars

----------------------------------------------------------------------------
(* Claims about the sheet reconciliation, checked under SpecSheet          *)

\* The pass has computed its diff.
Diffed == pass.pc \in {"diffed", "done"} /\ snap # NoSnap

\* The keys of the desired rows of the pass.
DesiredKeys == {snap.rows[i][1] : i \in 1..Len(snap.rows)}

\* One update at the existing row for every desired row whose key exists, one
\* append for every desired row whose key does not, and nothing else.
UpdatesAndAppendsMatch ==
    LET existing == existing_threads(snap.values)
        upd(r) == {j \in 1..Len(updates.to_update) : updates.to_update[j].values = r}
        app(r) == {j \in 1..Len(updates.to_add) : updates.to_add[j] = r}
    IN  /\ \A i \in 1..Len(snap.rows) :
              IF snap.rows[i][1] \in DOMAIN existing
              THEN /\ Cardinality(upd(snap.rows[i])) = 1
                   /\ \A j \in upd(snap.rows[i]) :
                          updates.to_update[j].range = existing[snap.rows[i][1]]
                   /\ app(snap.rows[i]) = {}
              ELSE /\ Cardinality(app(snap.rows[i])) = 1
                   /\ upd(snap.rows[i]) = {}
        /\ Len(updates.to_update) + Len(updates.to_add) = Len(snap.rows)

\* One delete at its row for every existing key outside keep, none for a key
\* in keep, and no other delete.
DeletesMatch(keep) ==
    LET existing == existing_threads(snap.values)
        del(k) == {j \in 1..Len(updates.to_delete) : updates.to_delete[j] = existing[k]}
    IN  /\ \A k \in DOMAIN existing :
              Cardinality(del(k)) = IF k \in keep THEN 0 ELSE 1
        /\ \A j \in 1..Len(updates.to_delete) :
              \E k \in DOMAIN existing : updates.to_delete[j] = existing[k]

\* C8 (as stated): the diff of a pass holds exactly one update for every
\* desired row whose key exists, one append for every desired row whose key
\* does not exist, and one delete for every existing key that no desired row
\* has.
C8_DeletesEveryKeyWithoutDesiredRow ==
    Diffed => (UpdatesAndAppendsMatch /\ DeletesMatch(DesiredKeys))

\* C8 (amended): as above, but the deletes are one for every existing key
\* that is the title of no current thread; the row of a current thread whose
\* record could not be built gets neither update nor delete.
C8_SheetDiff ==
    Diffed => (UpdatesAndAppendsMatch /\ DeletesMatch(snap.current_threads))

\* A diff holding a delete, an update and an append.
C8_Witness ==
    /\ Diffed
    /\ updates.to_delete # <<>>
    /\ updates.to_update # <<>>
    /\ updates.to_add # <<>>

Rank(kind) ==
    IF kind = "deleteDimension" THEN 1
    ELSE IF kind = "values_batchUpdate" THEN 2 ELSE 3

\* C9: the store calls of a pass go out in the order delete, update, append,
\* at most one call of each kind (one batch holding every update range, one
\* call holding every appended row), and the rows of the delete call are in
\* strictly descending order.
C9_StoreCallOrder ==
    /\ \A i, j \in 1..Len(calls) :
           i < j => Rank(calls[i].kind) < Rank(calls[j].kind)
    /\ \A i \in 1..Len(calls) :
           /\ calls[i].kind = "deleteDimension" =>
                  /\ Len(calls[i].rows) = Len(updates.to_delete)
                  /\ \A a, b \in 1..Len(calls[i].rows) :
                         a < b => calls[i].rows[a] > calls[i].rows[b]
           /\ calls[i].kind = "values_batchUpdate" =>
                  Len(calls[i].rows) = Len(updates.to_update)

\* A pass that deleted two rows, then updated, then appended.
C9_Witness ==
    /\ pass.pc = "done" /\ pass.result = "complete"
    /\ Len(calls) = 3
    /\ Len(calls[1].rows) >= 2

\* The rows have keys and the keys are distinct.
DistinctKeys(values) ==
    /\ \A i \in 1..Len(values) : HasKey(values[i])
    /\ \A i, j \in 1..Len(values) : values[i][1] = values[j][1] => i = j

\* C10: after a pass in which every thread was read and every store call
\* succeeded, started on a sheet with distinct keys for threads with distinct
\* titles, the sheet holds exactly the desired rows, one row each.
C10_SheetMatchesDesired ==
    (/\ pass.pc = "done" /\ pass.result = "complete" /\ snap # NoSnap
     /\ snap.failed = {}
     /\ DistinctKeys(snap.values)
     /\ DistinctKeys(snap.rows))
    => /\ Len(sheet) = Len(snap.rows)
       /\ \A i \in 1..Len(snap.rows) :
              Cardinality({j \in 1..Len(sheet) : sheet[j] = snap.rows[i]}) = 1

\* The sheet read by the pass holds exactly the desired rows, one row per key.
RoundTripCase ==
    /\ Diffed
    /\ DistinctKeys(snap.values)
    /\ DistinctKeys(snap.rows)
    /\ Range(snap.values) = Range(snap.rows)

\* C11 (as stated): when the sheet rows equal the desired rows, the diff is
\* empty (no delete, no update, no append) and the pass issues no write.
C11_RoundTripIssuesNoWrite ==
    RoundTripCase => (/\ updates = NoUpdates
                      /\ pass.pc = "done"
                      /\ calls = <<>>)

\* C11 (amended): when the sheet rows equal the desired rows, the diff holds
\* no delete and no append but one update per desired row, each writing to a
\* row the values that row already has; the only write of the pass is the
\* values.batchUpdate of these updates (none when there is no desired row),
\* and it leaves the sheet as it was.
C11_RoundTripRewritesSameValues ==
    RoundTripCase =>
        /\ updates.to_delete = <<>>
        /\ updates.to_add = <<>>
        /\ Len(updates.to_update) = Len(snap.rows)
        /\ \A i \in 1..Len(updates.to_update) :
               /\ updates.to_update[i].range - 1 \in 1..Len(snap.values)
               /\ updates.to_update[i].values = snap.values[updates.to_update[i].range - 1]
        /\ pass.pc = "done" =>
               /\ sheet = snap.values
               /\ Len(calls) = (IF snap.rows = <<>> THEN 0 ELSE 1)
               /\ \A c \in 1..Len(calls) : calls[c].kind = "values_batchUpdate"

\* A completed pass over a sheet that already held the two desired rows.
C11_Witness ==
    /\ RoundTripCase
    /\ Len(snap.rows) = 2
    /\ pass.pc = "done" /\ pass.result = "complete"

\* This step is the diff of a pass that follows a pass in which every store
\* call succeeded, with no change of the forum in between and the same
\* desired rows.
RediffAfterSuccess ==
    /\ pass.pc = "done" /\ pass.result = "complete" /\ snap # NoSnap
    /\ pass'.pc \in {"diffed", "done"} /\ snap' # NoSnap
    /\ snap'.rows = snap.rows

\* C12: after a pass in which every store call succeeded, the diff of the
\* sheet as re-read against the same desired rows holds no delete and no
\* append (and, as stated, no update either; the updates that rewrite the
\* rows of existing keys, which every diff holds, are left aside here).
C12_RediffIsEmpty ==
    [][RediffAfterSuccess =>
           (updates'.to_delete = <<>> /\ updates'.to_add = <<>>)]_vars

\* C13: the sheet never holds two rows appended by add_to_spreadsheet for the
\* same thread, also after vote-check cycles in which the tag update failed
\* and was only logged.
C13_AppendedAtMostOnce == appended <= 1

\* C14: at no point are two reconciliation cycles active on the spreadsheet
\* at once: while the pass of update_tracker is between its read of the sheet
\* and its writes, the pass of a setup_forum_tracker command is not, and the
\* other way round.
C14_OneCycleAtATime == ~(pass.pc = "diffed" /\ setup.pc = "diffed")

\* The sheet after the calls of the log that succeeded, applied to values in
\* the order of the log.
RECURSIVE AfterCalls(_, _, _)
AfterCalls(values, log, u) ==
    IF log = <<>> THEN values
    ELSE LET c == Head(log)
             v == IF ~c.ok THEN values
                  ELSE IF c.kind = "deleteDimension" THEN batchUpdate(values, c.rows)
                  ELSE IF c.kind = "values_batchUpdate"
                  THEN values_batchUpdate(values, u.to_update)
                  ELSE values_append(values, u.to_add)
         IN  AfterCalls(v, Tail(log), u)

\* C15: when a store call of a pass raises, the pass ends there with the error
\* caught: the raising call is the last call issued, every call before it
\* succeeded and what those calls wrote stays in the sheet (no rollback), and
\* nothing of the raising call or of the phases after it is in the sheet.
C15_NoRollbackNoFurtherCalls ==
    [][(pass.pc = "diffed" /\ pass'.result = "error")
       => /\ pass'.pc = "done"
          /\ calls' # <<>>
          /\ ~calls'[Len(calls')].ok
          /\ \A i \in 1..(Len(calls') - 1) : calls'[i].ok
          /\ sheet' = Trim(AfterCalls(sheet, calls', updates))]_vars

\* A pass whose update batch raised after its delete had removed rows.
C15_Witness ==
    /\ pass.pc = "done" /\ pass.result = "error"
    /\ Len(calls) = 2
    /\ calls[1].kind = "deleteDimension" /\ calls[1].ok
    /\ calls[2].kind = "values_batchUpdate" /\ ~calls[2].ok
    /\ updates.to_add # <<>>
    /\ Len(sheet) < Len(snap.values)

\* This step is the diff of a pass that reads every thread, right after a
\* pass that ended on a raising store call, with no change of the forum in
\* between.
DiffAfterFailedPass ==
    /\ pass.pc = "done" /\ pass.result = "error" /\ calls # <<>>
    /\ snap' # NoSnap /\ snap'.failed = {}

\* C16: a pass in which every thread is read and every store call succeeds,
\* run right after a pass that ended on a raising store call, for threads
\* with distinct titles and with no change of the forum in between, leaves
\* the sheet with exactly the desired rows, one row each.
C16_NextPassHeals ==
    [][(DiffAfterFailedPass /\ DistinctKeys(snap'.rows))
       => LET left == GoogleSheets_update_spreadsheet(sheet, updates', "none").values
          IN  /\ Len(left) = Len(snap'.rows)
              /\ \A i \in 1..Len(snap'.rows) :
                     \E j \in 1..Len(left) : left[j] = snap'.rows[i]]_vars

----------------------------------------------------------------------------
(* Claims about tag application, checked under Spec                        *)

TagAppliers == {"process_thread_votes", "process_untagged", "check_thread_ratio",
                "SyncCog_manage_thread_tags", "DiscordBot_manage_thread_tags",
                "fix_threads"}

\* C17: after a handler's tag edit went through, the thread carries exactly
\* one status tag (for the vote check: the Approved tag iff the ratio is
\* above the approve ratio, else the Rejected tag; for the ratio check: the
\* opposite of the final tag it had); and no step leaves a thread with both
\* the Approved and the Rejected tag.
C17_ExactlyOneStatusTag ==
    [][/\ ~(ADDED_TO_LIST \in applied_tags' /\ NOT_IN_LIST \in applied_tags')
       /\ (last'.op \in TagAppliers /\ last'.result = "edited") =>
              /\ Cardinality(applied_tags' \cap StatusTags) = 1
              /\ last'.op \in {"process_thread_votes", "process_untagged"} =>
                     (ADDED_TO_LIST \in applied_tags'
                          <=> yes_votes * 10000 > ApproveRatioE4 * total_votes)
              /\ last'.op = "check_thread_ratio" =>
                     (ADDED_TO_LIST \in applied_tags' <=> ~Approved)]_vars

\* The periodic tag task has moved a Rejected thread's status tag to Approved.
C17_Witness ==
    /\ last.op = "SyncCog_manage_thread_tags" /\ last.result = "edited"
    /\ applied_tags \cap StatusTags = {ADDED_TO_LIST}
    /\ OTHER_TAG \in applied_tags

\* The reconcilers that run on a timer over every thread.
Reconcilers == {"SyncCog_manage_thread_tags", "DiscordBot_manage_thread_tags"}

\* C18: reconciling a thread whose only status tag is already the correct one
\* computes empty add and remove sets and issues no tag edit: a reconciler
\* step that leaves a single status tag exactly as it was has not called
\* thread.edit.
C18_ReconcileIdempotent ==
    [][/\ LET d == SyncCog_tag_delta(applied_tags, yes_votes, no_votes, ThreadAge)
              target == IF ThreadAge <= MinAgeHours THEN INITIAL_VOTE
                        ELSE IF PctAtLeast501(yes_votes, total_votes)
                        THEN ADDED_TO_LIST ELSE NOT_IN_LIST
          IN  applied_tags \cap StatusTags = {target} =>
                  (d.add = {} /\ d.remove = {})
       /\ (/\ last'.op \in Reconcilers
           /\ Cardinality(applied_tags \cap StatusTags) = 1
           /\ applied_tags' = applied_tags) => last'.result # "edited"]_vars

----------------------------------------------------------------------------
(* Claims about vote counting, checked under SpecVotes                     *)

RECURSIVE users_sum(_)
\* reactions made by users with the emoji in S
users_sum(S) ==
    IF S = {}
    THEN 0
    ELSE LET e == CHOOSE x \in S : TRUE
         IN  user_reactions[e] + users_sum(S \ {e})

FullySeeded == bot_on = {NEW_YES_EMOJI, NEW_NO_EMOJI}

\* C19: on a message that carries the bot's one yes and one no reaction, the
\* yes count a counter computes is the number of reactions users made with
\* the yes emoji it matches, and likewise for no, whatever mix of emoji is on
\* the message.
C19_CountsUserReactionsOnly ==
    (/\ FullySeeded
     /\ record.op \in {"count_votes", "GoogleSheets_process_thread",
                       "SyncCog_process_thread_data"}) =>
        /\ record.yes_votes = users_sum(YesEmoji(record.op))
        /\ record.no_votes = users_sum(NoEmoji(record.op))

\* C20: every record a counter produces has yes_votes >= 0 and no_votes >= 0,
\* also when the bot's reactions are missing or only its yes reaction is there.
C20_CountsNonNegative ==
    record.yes_votes >= 0 /\ record.no_votes >= 0

\* count_votes has run on a message that has only the bot's yes reaction and
\* no no reaction at all.
C20_Witness ==
    /\ record.op = "count_votes"
    /\ bot_on = {NEW_YES_EMOJI}
    /\ user_reactions["pickle_no"] = 0 /\ user_reactions["cross"] = 0
    /\ record.no_votes = 0

\* The handlers the periodic scans run on each thread.
ScanOps == {"process_thread_votes", "check_thread_ratio",
            "SyncCog_manage_thread_tags", "DiscordBot_manage_thread_tags"}

\* C22: while the thread's key is in the exemption set, no scan changes its
\* tags and none appends a row for it.
C22_ExemptThreadUntouched ==
    [][(/\ THREAD_ID \in exempt_threads
        /\ THREAD_ID \in exempt_threads'
        /\ last'.op \in ScanOps) =>
           (applied_tags' = applied_tags /\ appended' = appended)]_vars

\* The status tag a handler is about to apply, where the handler has one.
TargetTag(op) ==
    CASE op \in {"process_thread_votes", "process_untagged"} ->
             IF IsApproved(yes_votes, total_votes) THEN ADDED_TO_LIST ELSE NOT_IN_LIST
      [] op = "check_thread_ratio" ->
             IF Approved THEN NOT_IN_LIST ELSE ADDED_TO_LIST
      [] op = "DiscordBot_manage_thread_tags" ->
             DiscordBot_status_tag(yes_votes, no_votes, ThreadAge)
      [] op = "fix_threads" ->
             fix_threads_status_tag(yes_votes, no_votes, ThreadAge)
      [] OTHER -> INITIAL_VOTE

CogStatusTag ==
    IF ThreadAge < MinAgeHours
    THEN INITIAL_VOTE
    ELSE IF IsApproved(yes_votes, total_votes) THEN ADDED_TO_LIST ELSE NOT_IN_LIST

\* C30: for the thread's votes and age, process_thread_votes, both
\* manage_thread_tags implementations and fix_threads choose the same status
\* tag.
C30_CallSitesAgree ==
    exists =>
        /\ SyncCog_tag_delta({}, yes_votes, no_votes, ThreadAge).add
               = {DiscordBot_status_tag(yes_votes, no_votes, ThreadAge)}
        /\ fix_threads_status_tag(yes_votes, no_votes, ThreadAge)
               = DiscordBot_status_tag(yes_votes, no_votes, ThreadAge)
        /\ total_votes > 0 =>
               CogStatusTag = DiscordBot_status_tag(yes_votes, no_votes, ThreadAge)

----------------------------------------------------------------------------
(* Claims about the scan cycles, checked under SpecServers                 *)

CycleOver == scan.result \in {"done", "aborted"}

\* C25: when a cycle has a server with a configuration error, every other
\* server (its configuration complete) has still been processed by the end
\* of the cycle.
C25_OtherServersStillProcessed ==
    (CycleOver /\ \E k \in ServerIds : servers[k] # "ok") =>
        \A i \in ServerIds : servers[i] = "ok" => i \in served

----------------------------------------------------------------------------
(* Claims about the sync cycles and the sheet writers, checked under       *)
(* SpecSync                                                                *)

\* C21: a cycle in which the opening message of some thread could not be
\* fetched still writes the rows of all the other threads.
C21_FetchFailureSkipsOnlyThatThread ==
    (/\ last_write.op \in {"sync_all_threads", "sync_spreadsheet"}
     /\ last_write.failed # {}) =>
        last_write.threads = SyncThreads \ last_write.failed

\* The step in which caller r's process_thread_data decides about thread t.
Decides(r, t) ==
    /\ run[r].task[t] = "todo"
    /\ run'[r].task[t] \in {"sending", "done"}

C24_OneNotificationPerCrossing ==
    \A t \in SyncThreads : notes[t] <= 1

\* C28: sync_all_threads is never running while combined_sync_task is inside
\* its per-thread loop, and a cycle calls it at most once.
C28_OnePassAfterTheLoop ==
    /\ run["task"].pc = "batch" => loop.pos \notin SyncThreads
    /\ loop.syncs <= 1

\* C29: every row a writer has written has the columns title, body, yes
\* votes, no votes, ratio, created date, in this order.
C29_RowColumnsInFixedOrder ==
    last_write.writer # "none" =>
        last_write.layout
            = <<"title", "content", "yes_votes", "no_votes", "ratio", "date_posted">>

\* Two current threads of one title, both read in the pass whose diff is held.
SameTitle(i, j) ==
    /\ i \in all_threads \ snap.failed
    /\ j \in all_threads \ snap.failed
    /\ i < j
    /\ threads[i].name = threads[j].name

\* C31: with the thread title as the row key, two current threads of one
\* title that is a key of the sheet are given the same row by the diff: both
\* updates carry one range, the later thread's values last, so that the row
\* ends with the later thread's data and the earlier thread has no row of
\* its own that the pass writes.
C31_SameTitleAliasesOneRow ==
    (pass.pc \in {"diffed", "done"} /\ snap # NoSnap) =>
        \A i, j \in 1..MaxThreads :
            (SameTitle(i, j) /\ threads[i].name \in DOMAIN existing_threads(snap.values)) =>
                \E m, n \in 1..Len(updates.to_update) :
                    /\ m < n
                    /\ updates.to_update[m].range = updates.to_update[n].range
                    /\ updates.to_update[m].values = row_data(process_thread(i))
                    /\ updates.to_update[n].values = row_data(process_thread(j))

\* A pass whose store calls all succeeded has ended with two current threads
\* of one title, and the sheet holds no row with the earlier thread's values.
C31_Witness ==
    /\ pass = [pc |-> "done", result |-> "complete"]
    /\ snap # NoSnap
    /\ \E i, j \in 1..MaxThreads :
        /\ SameTitle(i, j)
        /\ threads[i].name \in DOMAIN existing_threads(snap.values)
        /\ \A n \in 1..Len(sheet) : sheet[n] # row_data(process_thread(i))

C34_PendingOnlyAtCreation ==
    [][(exists /\ applied_tags \cap FinalTags # {}) =>
           /\ INITIAL_VOTE \in applied_tags' => INITIAL_VOTE \in applied_tags
           /\ last'.op = "process_thread_votes" => applied_tags' = applied_tags]_vars

\* C35: a cycle that started with an empty ratio map is never sending a
\* notification, whatever the ratios; when it has processed a thread, the
\* thread's current ratio is in the map; and a cycle decides to notify only
\* for a thread whose recorded ratio is at most 50, so not for a thread the
\* first cycle recorded above 50 until a lower ratio has been recorded.
C35_FirstCycleRecordsWithoutNotifying ==
    [][\A r \in Runners, t \in SyncThreads :
          /\ (run'[r].pc = "batch" /\ run'[r].first) => run'[r].task[t] # "sending"
          /\ (Decides(r, t) /\ run[r].first) =>
                 /\ run'[r].task[t] = "done"
                 /\ <<t, ratio_now[t]>> \in last_thread_states'
                 /\ notes' = notes
          /\ (Decides(r, t) /\ run'[r].task[t] = "sending") =>
                 /\ ~run[r].first
                 /\ \A p \in last_thread_states : p[1] = t => p[2] <= NotifyPct]_vars

\* A cycle that started with an empty map has processed a thread whose ratio
\* is above 50%: the ratio is recorded and no notification has gone out.
C35_Witness ==
    \E r \in Runners, t \in SyncThreads :
        /\ run[r].pc = "batch" /\ run[r].first
        /\ run[r].task[t] = "done"
        /\ ratio_now[t] > NotifyPct
        /\ <<t, ratio_now[t]>> \in last_thread_states
        /\ notes[t] = 0

\* Two rows are the same row: written in the same layout (the ratio cell
\* names the writer's format) and equal cell by cell.
SameRow(a, b) ==
    \/ a = <<>> /\ b = <<>>
    \/ a # <<>> /\ b # <<>> /\ a[5][1] = b[5][1] /\ a = b

SameSheet(a, b) ==
    Len(a) = Len(b) /\ \A i \in 1..Len(a) : SameRow(a[i], b[i])

\* A full sync has ended and a clear call of it failed.
ClearFailed ==
    /\ pass.pc = "done"
    /\ \E i \in 1..Len(calls) : calls[i].kind = "values_clear" /\ ~calls[i].ok

\* C36: in the clear-then-rewrite writers a failed clear leaves the sheet
\* untouched: when the clear of a pass has failed, the pass has issued no
\* write of rows and the sheet is what it was before the pass.
C36_FailedClearWritesNothing ==
    ClearFailed =>
        /\ \A i \in 1..Len(calls) :
               calls[i].kind \notin {"values_update", "values_batchUpdate"}
        /\ SameSheet(sheet, snap.values)

\* C37: a thread that still exists and whose record could not be built in a
\* cycle keeps its row: every row the sheet held under its title before the
\* cycle is in the sheet, with the same values, after the cycle.
C37_FailedThreadKeepsItsRow ==
    pass.pc = "done" =>
        \A t \in snap.failed \cap all_threads :
            \A i \in 1..Len(snap.values) :
                (HasKey(snap.values[i]) /\ snap.values[i][1] = threads[t].name) =>
                    \E j \in 1..Len(sheet) : SameRow(sheet[j], snap.values[i])

\* C39: a full sync that collected no record has issued no call to the
\* spreadsheet, and the sheet holds the rows it held before the cycle.
C39_NoRecordsNoCall ==
    (pass.pc = "done" /\ snap.rows = <<>>) =>
        /\ calls = <<>>
        /\ SameSheet(sheet, snap.values)

\* A sync_all_threads cycle over a channel with threads, none of which gave
\* a record, has ended on a sheet that held rows: the rows are still there.
C39_Witness ==
    /\ pass.pc = "done" /\ pass.op = "sync_all_threads" /\ pass.result = "no_data"
    /\ all_threads # {} /\ snap.failed = all_threads
    /\ snap.rows = <<>>
    /\ sheet # <<>> /\ SameSheet(sheet, snap.values)
    /\ calls = <<>>

\* C32: at any moment at most 10 threads have their vote counting in flight,
\* and the loop moves to the next batch only when no task of the batch
\* before is still in flight.
C32_AtMostTenInFlight ==
    [][/\ fanout'.in_flight <= 10
       /\ fanout'.i # fanout.i => fanout.in_flight = 0]_vars

\* C38: every thread created in the tracked channel that has reached min
\* age eventually carries the Approved or the Rejected tag, whatever its
\* votes and whether or not the creation handler seeded it, as long as the
\* channel has the three status tags and the vote check keeps running with
\* provider calls that succeed.
C38_EveryThreadEventuallyFinal ==
    []((exists /\ ThreadAge >= MinAgeHours /\ StatusTags \subseteq available_tags)
           => <>(applied_tags \cap FinalTags # {}))

====
